---------------------------- MODULE Spec2Model ----------------------------
(***************************************************************************)
(* Model of the address mapper: the mapping library (lib/mapper), the App  *)
(* component (state, handlers, effects, persisted blob), the upload        *)
(* component's parse outcomes and the table's row editor.                  *)
(*                                                                         *)
(* Strings are sequences of code points (<<77, 97, 120>> is "Max"), so     *)
(* that trimming, lower-casing, splitting and length are computed and not  *)
(* assumed.  A JavaScript value of unknown type is a tagged record (JsStr, *)
(* JsNum, JsObject, Undefined).  A JavaScript object whose key order        *)
(* matters is a sequence of entries [k, v] with distinct keys, in          *)
(* insertion order.                                                        *)
(***************************************************************************)
EXTENDS Integers, Sequences, FiniteSets, TLC

(***************************************************************************)
(* Bounds of the model.                                                    *)
(***************************************************************************)
\* Rows taken from an uploaded file.
MaxRows == 3
\* Longest record batch handed to the validator directly, and the largest
\* REFERENZ in it.
MaxBatch == 3
\* Most tokens of a street handed to splitStreetNumber.
MaxTokens == 3
\* Longest text handed to escapeCSVValue and to toCP1252Bytes.
MaxText == 3

(***************************************************************************)
(* JavaScript values and strings.                                          *)
(***************************************************************************)
Undefined == [t |-> "undefined", s |-> <<>>, n |-> 0]
JsStr(str) == [t |-> "str", s |-> str, n |-> 0]
JsNum(num) == [t |-> "num", s |-> <<>>, n |-> num]
\* An object or a function; text is what String() makes of it.
JsObject(text) == [t |-> "object", s |-> text, n |-> 0]

\* Decimal digits of a natural number, as String(n) writes them.
RECURSIVE Digits(_)
Digits(num) ==
    IF num < 10 THEN <<48 + num>> ELSE Digits(num \div 10) \o <<48 + (num % 10)>>

\* String(value)
String(v) ==
    CASE v.t = "str" -> v.s
      [] v.t = "num" -> Digits(v.n)
      [] v.t = "object" -> v.s
      [] OTHER -> <<117, 110, 100, 101, 102, 105, 110, 101, 100>>  \* "undefined"

\* JavaScript truthiness: "", 0 and undefined are falsy.
Truthy(v) ==
    CASE v.t = "str" -> v.s # <<>>
      [] v.t = "num" -> v.n # 0
      [] v.t = "object" -> TRUE
      [] OTHER -> FALSE

\* a || b
OrElse(a, b) == IF Truthy(a) THEN a ELSE b

\* Line terminators: "." of a regular expression does not match them.
LineTerminators == {10, 13, 8232, 8233}
IsSpace(c) ==
    LET
        \* What \s matches and trim() removes: white space and line terminators.
        WhiteSpace ==
            {9, 10, 11, 12, 13, 32, 160, 5760, 8232, 8233, 8239, 8287, 12288, 65279}
                \cup (8192..8202)
    IN
    c \in WhiteSpace

\* \d
IsDigit(c) == c \in 48..57

\* toLowerCase of one code point (Basic Latin and Latin-1 letters).
LowerChar(c) ==
    IF c \in 65..90 \/ (c \in 192..222 /\ c # 215) THEN c + 32 ELSE c
toLowerCase(str) == [i \in 1..Len(str) |-> LowerChar(str[i])]

\* toUpperCase of one code point (Basic Latin and Latin-1 letters): the
\* sharp s becomes "SS", the y with diaeresis and the micro sign leave
\* Latin-1.
RECURSIVE toUpperCase(_)
toUpperCase(str) ==
    LET UpperChar(c) ==
            IF c \in 97..122 \/ (c \in 224..254 /\ c # 247) THEN <<c - 32>>
            ELSE IF c = 223 THEN <<83, 83>>
            ELSE IF c = 255 THEN <<376>>
            ELSE IF c = 181 THEN <<924>>
            ELSE <<c>>
    IN  IF str = <<>> THEN <<>> ELSE UpperChar(Head(str)) \o toUpperCase(Tail(str))

RECURSIVE TrimLeft(_)
TrimLeft(str) ==
    IF str # <<>> /\ IsSpace(Head(str)) THEN TrimLeft(Tail(str)) ELSE str
RECURSIVE TrimRight(_)
TrimRight(str) ==
    IF str # <<>> /\ IsSpace(str[Len(str)])
    THEN TrimRight(SubSeq(str, 1, Len(str) - 1))
    ELSE str
\* str.trim()
trim(str) == TrimRight(TrimLeft(str))

\* str.replace(/\s+/g, " "): every run of white space becomes one space.
RECURSIVE CollapseSpaces(_)
CollapseSpaces(str) ==
    IF str = <<>> THEN <<>>
    ELSE IF IsSpace(Head(str))
         THEN <<32>> \o CollapseSpaces(TrimLeft(str))
         ELSE <<Head(str)>> \o CollapseSpaces(Tail(str))

\* The leading run of non-space code points of str.
RECURSIVE FirstToken(_)
FirstToken(str) ==
    IF str = <<>> \/ IsSpace(Head(str)) THEN <<>>
    ELSE <<Head(str)>> \o FirstToken(Tail(str))

\* str.split(/\s+/) of a trimmed, non-empty string: its tokens in order.
RECURSIVE SplitSpaces(_)
SplitSpaces(str) ==
    IF str = <<>> THEN <<>>
    ELSE LET tok == FirstToken(str)
             rest == TrimLeft(SubSeq(str, Len(tok) + 1, Len(str)))
         IN  <<tok>> \o SplitSpaces(rest)

\* parts.join(" ")
RECURSIVE JoinSpace(_)
JoinSpace(parts) ==
    IF parts = <<>> THEN <<>>
    ELSE IF Len(parts) = 1 THEN parts[1]
    ELSE parts[1] \o <<32>> \o JoinSpace(Tail(parts))

\* str.includes(sub)
Includes(str, sub) ==
    \E i \in 0..(Len(str) - Len(sub)) : SubSeq(str, i + 1, i + Len(sub)) = sub

HasDigit(str) == \E i \in 1..Len(str) : IsDigit(str[i])

\* The token matches \d+[A-Za-z\-\/]? as a whole.
IsNumberToken(tok) ==
    LET
        \* [A-Za-z\-\/]
        IsSuffixChar(c) == c \in (65..90) \cup (97..122) \cup {45, 47}
    IN
    /\ tok # <<>>
    /\ IsDigit(tok[1])
    /\ \A i \in 1..(Len(tok) - 1) : IsDigit(tok[i])
    /\ IsDigit(tok[Len(tok)]) \/ (Len(tok) >= 2 /\ IsSuffixChar(tok[Len(tok)]))

(***************************************************************************)
(* Objects with ordered keys: sequences of entries [k, v], keys distinct.  *)
(***************************************************************************)
ObjHas(obj, key) == \E i \in 1..Len(obj) : obj[i].k = key
ObjGet(obj, key) == obj[CHOOSE i \in 1..Len(obj) : obj[i].k = key].v
\* obj[key] = value: an existing key keeps its place, a new key is appended.
ObjSet(obj, key, value) ==
    IF ObjHas(obj, key)
    THEN [i \in 1..Len(obj) |->
            IF obj[i].k = key THEN [k |-> key, v |-> value] ELSE obj[i]]
    ELSE Append(obj, [k |-> key, v |-> value])
\* obj[key] read as a JavaScript value: undefined when the key is absent.
JsGet(obj, key) == IF ObjHas(obj, key) THEN ObjGet(obj, key) ELSE Undefined

\* table[key] of a lookup table created as the object literal {}, whose own
\* values are strings: a key the table does not have is looked up in
\* Object.prototype.  Of the property names of Object.prototype only
\* "constructor" (the function Object) and "__proto__" (Object.prototype
\* itself) are in lower case, which is how both tables are asked.
TableGet(table, key) ==
    IF ObjHas(table, key) THEN JsStr(ObjGet(table, key))
    ELSE IF key = <<99, 111, 110, 115, 116, 114, 117, 99, 116, 111, 114>>  \* "constructor"
    THEN JsObject(<<102, 117, 110, 99, 116, 105, 111, 110, 32, 79, 98, 106, 101, 99, 116, 40, 41, 32, 123, 32, 91, 110, 97, 116, 105, 118, 101, 32, 99, 111, 100, 101, 93, 32, 125>>)
    ELSE IF key = <<95, 95, 112, 114, 111, 116, 111, 95, 95>>  \* "__proto__"
    THEN JsObject(<<91, 111, 98, 106, 101, 99, 116, 32, 79, 98, 106, 101, 99, 116, 93>>)
    ELSE Undefined
\* table[key] = value, value a string: an assignment to "__proto__" of a
\* value that is not an object is ignored.
TableSet(table, key, value) ==
    IF key = <<95, 95, 112, 114, 111, 116, 111, 95, 95>> THEN table ELSE ObjSet(table, key, value)

(***************************************************************************)
(* Texts of the program.                                                   *)
(***************************************************************************)
kVorname == <<86, 111, 114, 110, 97, 109, 101>>  \* "Vorname"
kName == <<78, 97, 109, 101>>  \* "Name"
kAdresse1 == <<65, 100, 114, 101, 115, 115, 101, 49>>  \* "Adresse1"
kAdresse2 == <<65, 100, 114, 101, 115, 115, 101, 50>>  \* "Adresse2"
kPLZ == <<80, 76, 90>>  \* "PLZ"
kOrt == <<79, 114, 116>>  \* "Ort"
kLand == <<76, 97, 110, 100>>  \* "Land"
salutation == <<115, 97, 108, 117, 116, 97, 116, 105, 111, 110>>  \* "salutation"
first_name == <<102, 105, 114, 115, 116, 95, 110, 97, 109, 101>>  \* "first_name"
last_name == <<108, 97, 115, 116, 95, 110, 97, 109, 101>>  \* "last_name"
street == <<115, 116, 114, 101, 101, 116>>  \* "street"
address_addition == <<97, 100, 100, 114, 101, 115, 115, 95, 97, 100, 100, 105, 116, 105, 111, 110>>  \* "address_addition"
postal_code == <<112, 111, 115, 116, 97, 108, 95, 99, 111, 100, 101>>  \* "postal_code"
city == <<99, 105, 116, 121>>  \* "city"
country == <<99, 111, 117, 110, 116, 114, 121>>  \* "country"
DEU == <<68, 69, 85>>  \* "DEU"
HOUSE == <<72, 79, 85, 83, 69>>  \* "HOUSE"
POBOX == <<80, 79, 66, 79, 88>>  \* "POBOX"
MAJORRECIPIENT == <<77, 65, 74, 79, 82, 82, 69, 67, 73, 80, 73, 69, 78, 84>>  \* "MAJORRECIPIENT"
Postfach == <<80, 111, 115, 116, 102, 97, 99, 104>>  \* "Postfach"
Grossempfaenger1 == <<71, 114, 111, 223, 101, 109, 112, 102, 228, 110, 103, 101, 114>>  \* "Gro\u00dfempf\u00e4nger"
Grossempfaenger2 == <<71, 114, 111, 115, 115, 101, 109, 112, 102, 228, 110, 103, 101, 114>>  \* "Grossempf\u00e4nger"

(***************************************************************************)
(* Country directory.  The table itself (assets/countries.json) is data of *)
(* the repository; these entries are a sample of it.                       *)
(***************************************************************************)
countriesData ==
    <<
       \* Germany, Deutschland, DE, DEU
       [englishShortName |-> <<71, 101, 114, 109, 97, 110, 121>>,
        germanShortName |-> <<68, 101, 117, 116, 115, 99, 104, 108, 97, 110, 100>>,
        alpha2Code |-> <<68, 69>>, alpha3Code |-> <<68, 69, 85>>, numeric |-> 276],
       \* Austria, \u00d6sterreich, AT, AUT
       [englishShortName |-> <<65, 117, 115, 116, 114, 105, 97>>,
        germanShortName |-> <<214, 115, 116, 101, 114, 114, 101, 105, 99, 104>>,
        alpha2Code |-> <<65, 84>>, alpha3Code |-> <<65, 85, 84>>, numeric |-> 40],
       \* Switzerland, Schweiz, CH, CHE
       [englishShortName |-> <<83, 119, 105, 116, 122, 101, 114, 108, 97, 110, 100>>,
        germanShortName |-> <<83, 99, 104, 119, 101, 105, 122>>,
        alpha2Code |-> <<67, 72>>, alpha3Code |-> <<67, 72, 69>>, numeric |-> 756]
    >>

\* One pass of the forEach of buildCountryMapping over the first n entries.
RECURSIVE CountryMappingUpTo(_)
CountryMappingUpTo(n) ==
    IF n = 0 THEN <<>>
    ELSE LET c == countriesData[n]
             m0 == CountryMappingUpTo(n - 1)
             m1 == ObjSet(m0, toLowerCase(c.englishShortName), c.alpha3Code)
             m2 == IF c.germanShortName # <<>>
                   THEN ObjSet(m1, toLowerCase(c.germanShortName), c.alpha3Code)
                   ELSE m1
             m3 == ObjSet(m2, toLowerCase(c.alpha2Code), c.alpha3Code)
         IN  ObjSet(m3, toLowerCase(c.alpha3Code), c.alpha3Code)
\* A variant of buildCountryMapping that registers the keys as they are
\* written.
buildCountryMappingRawKeys ==
    LET RECURSIVE RawUpTo(_)
        RawUpTo(n) ==
            IF n = 0 THEN <<>>
            ELSE LET c == countriesData[n]
                     m1 == ObjSet(RawUpTo(n - 1), c.englishShortName, c.alpha3Code)
                     m2 == ObjSet(m1, c.germanShortName, c.alpha3Code)
                     m3 == ObjSet(m2, c.alpha2Code, c.alpha3Code)
                 IN  ObjSet(m3, c.alpha3Code, c.alpha3Code)
    IN  RawUpTo(Len(countriesData))

buildCountryMapping == CountryMappingUpTo(Len(countriesData))
countryMapping == buildCountryMapping

DEFAULT_COLUMN_MAPPING ==
    LET
        kAnrede == <<65, 110, 114, 101, 100, 101>>  \* "Anrede"
    IN
    << [k |-> kAnrede, v |-> salutation], [k |-> kVorname, v |-> first_name],
       [k |-> kName, v |-> last_name], [k |-> kAdresse1, v |-> street],
       [k |-> kAdresse2, v |-> address_addition], [k |-> kPLZ, v |-> postal_code],
       [k |-> kOrt, v |-> city], [k |-> kLand, v |-> country] >>

(***************************************************************************)
(* lib/mapper: the row pipeline.                                           *)
(***************************************************************************)
\* The normalizedMapping of mapColumns: the alias keys lower-cased, in order.
RECURSIVE NormalizeMapping(_)
NormalizeMapping(mapping) ==
    IF mapping = <<>> THEN <<>>
    ELSE LET e == mapping[Len(mapping)]
         IN  TableSet(NormalizeMapping(SubSeq(mapping, 1, Len(mapping) - 1)),
                      toLowerCase(e.k), e.v)

\* The forEach of mapColumns over the first n entries of the row.
RECURSIVE MapColumnsUpTo(_, _, _)
MapColumnsUpTo(row, normalizedMapping, n) ==
    IF n = 0 THEN <<>>
    ELSE LET mapped == MapColumnsUpTo(row, normalizedMapping, n - 1)
             lowerKey == toLowerCase(row[n].k)
         IN  IF Truthy(TableGet(normalizedMapping, lowerKey))
             THEN ObjSet(mapped, String(TableGet(normalizedMapping, lowerKey)),
                         row[n].v)
             ELSE ObjSet(mapped, lowerKey, row[n].v)

\* customMapping is {} when the argument is omitted and {mapping} otherwise.
mapColumns(row, customMapping) ==
    LET mapping == IF customMapping = {} THEN DEFAULT_COLUMN_MAPPING
                   ELSE CHOOSE m \in customMapping : TRUE
    IN  MapColumnsUpTo(row, NormalizeMapping(mapping), Len(row))

\* code is the text String() makes of the value returned as the code, which
\* is how the validator, the table and the export read LAND.
mapCountry(countryValue) ==
    LET Found(mapped, countryStr) ==
            IF Truthy(mapped)
            THEN [code |-> String(mapped), unmappedOriginal |-> Undefined]
            ELSE [code |-> DEU, unmappedOriginal |-> JsStr(countryStr)]
        Lookup(countryStr) ==
            IF countryStr = <<>>
            THEN [code |-> DEU, unmappedOriginal |-> Undefined]
            ELSE Found(TableGet(countryMapping, toLowerCase(countryStr)), countryStr)
    IN  IF ~Truthy(countryValue) THEN [code |-> DEU, unmappedOriginal |-> Undefined]
        ELSE Lookup(trim(String(countryValue)))

createFullName(firstName, lastName) ==
    LET first == IF Truthy(firstName) THEN trim(String(firstName)) ELSE <<>>
        last == IF Truthy(lastName) THEN trim(String(lastName)) ELSE <<>>
    IN  trim(first \o <<32>> \o last)

\* A variant of mapAddressType that looks for the major-recipient words
\* first.
mapAddressTypeMajorFirst(addressAddition) ==
    IF Truthy(addressAddition)
    THEN LET additionStr == String(addressAddition)
         IN  IF Includes(additionStr, Grossempfaenger1)
                \/ Includes(additionStr, Grossempfaenger2)
             THEN MAJORRECIPIENT
             ELSE IF Includes(additionStr, Postfach) THEN POBOX ELSE HOUSE
    ELSE HOUSE

mapAddressType(addressAddition) ==
    IF Truthy(addressAddition)
    THEN LET additionStr == String(addressAddition)
         IN  IF Includes(additionStr, Postfach) THEN POBOX
             ELSE IF Includes(additionStr, Grossempfaenger1)
                     \/ Includes(additionStr, Grossempfaenger2)
                  THEN MAJORRECIPIENT
                  ELSE HOUSE
    ELSE HOUSE

\* A variant of splitStreetNumber that tries the first token before the last.
splitStreetNumberFirstTokenFirst(streetValue) ==
    LET Match(str, parts, lastPart, prefix) ==
            IF /\ Len(parts) >= 2
               /\ IsNumberToken(lastPart)
               /\ \A i \in 1..Len(prefix) : prefix[i] \notin LineTerminators
            THEN <<prefix, lastPart>>
            ELSE IF Len(parts) >= 2 /\ HasDigit(parts[1])
            THEN <<JoinSpace(Tail(parts)), parts[1]>>
            ELSE IF Len(parts) >= 2 /\ HasDigit(lastPart)
            THEN <<JoinSpace(SubSeq(parts, 1, Len(parts) - 1)), lastPart>>
            ELSE <<str, (<<>>)>>
        Tokens(str, parts) ==
            Match(str, parts, parts[Len(parts)],
                  TrimRight(SubSeq(str, 1, Len(str) - Len(parts[Len(parts)]))))
        Trimmed(str) ==
            IF str = <<>> THEN <<(<<>>), (<<>>)>> ELSE Tokens(str, SplitSpaces(str))
    IN  IF ~Truthy(streetValue) THEN <<(<<>>), (<<>>)>>
        ELSE Trimmed(trim(String(streetValue)))

\* The pair [street name, house number].
splitStreetNumber(streetValue) ==
    LET \* str is the trimmed text, parts its tokens, lastPart the last of
        \* them; prefix is group 1 of /^(.*\S)\s+(\d+[A-Za-z\-\/]?)$/: str
        \* without its last token and the white space before it.
        Match(str, parts, lastPart, prefix) ==
            IF /\ Len(parts) >= 2
               /\ IsNumberToken(lastPart)
               /\ \A i \in 1..Len(prefix) : prefix[i] \notin LineTerminators
            THEN <<prefix, lastPart>>
            ELSE IF Len(parts) >= 2 /\ HasDigit(lastPart)
            THEN <<JoinSpace(SubSeq(parts, 1, Len(parts) - 1)), lastPart>>
            ELSE IF Len(parts) >= 2 /\ HasDigit(parts[1])
            THEN <<JoinSpace(Tail(parts)), parts[1]>>
            ELSE <<str, (<<>>)>>
        Tokens(str, parts) ==
            Match(str, parts, parts[Len(parts)],
                  TrimRight(SubSeq(str, 1, Len(str) - Len(parts[Len(parts)]))))
        Trimmed(str) ==
            IF str = <<>> THEN <<(<<>>), (<<>>)>> ELSE Tokens(str, SplitSpaces(str))
    IN  IF ~Truthy(streetValue) THEN <<(<<>>), (<<>>)>>
        ELSE Trimmed(trim(String(streetValue)))

\* A variant of cleanValue that trims and leaves the runs within.
cleanValueTrimOnly(value) ==
    IF ~Truthy(value) THEN <<>> ELSE trim(String(value))

cleanValue(value) ==
    IF ~Truthy(value) THEN <<>> ELSE CollapseSpaces(trim(String(value)))

mapRow(row, index, mapping) ==
    LET Result(mapped, split, addressAddition, countryResult) ==
            LET firstName == OrElse(JsGet(mapped, first_name), JsStr(<<>>))
                lastName == OrElse(JsGet(mapped, last_name), JsStr(<<>>))
                fullName == createFullName(firstName, lastName)
                addressType == mapAddressType(addressAddition)
                postalCode == JsGet(mapped, postal_code)
                result == [NAME |-> cleanValue(JsStr(fullName)),
                           ZUSATZ |-> cleanValue(addressAddition),
                           STRASSE |-> cleanValue(JsStr(split[1])),
                           NUMMER |-> cleanValue(JsStr(split[2])),
                           PLZ |-> cleanValue(postalCode),
                           STADT |-> cleanValue(OrElse(JsGet(mapped, city), JsStr(<<>>))),
                           LAND |-> countryResult.code,
                           ADRESS_TYP |-> addressType,
                           REFERENZ |-> index + 1]
            IN  IF Truthy(countryResult.unmappedOriginal)
                THEN ("LAND_UNMAPPED_ORIGINAL" :> countryResult.unmappedOriginal.s)
                        @@ result
                ELSE result
        Mapped(mapped) ==
            Result(mapped, splitStreetNumber(JsGet(mapped, street)),
                   OrElse(JsGet(mapped, address_addition), JsStr(<<>>)),
                   mapCountry(JsGet(mapped, country)))
    IN  Mapped(mapColumns(row, mapping))

\* A variant of mapData that hands every row the index 0: the uniqueness of
\* REFERENZ rests on the index mapData passes.
mapDataSameIndex(rows, mapping) ==
    [i \in 1..Len(rows) |-> mapRow(rows[i], 0, mapping)]

\* A variant of mapData that leaves out the rows that give no name.
mapDataSkipBlank(rows, mapping) ==
    LET Named(record) == record.NAME # <<>>
    IN  SelectSeq([i \in 1..Len(rows) |-> mapRow(rows[i], i - 1, mapping)], Named)

mapData(rows, mapping) == [i \in 1..Len(rows) |-> mapRow(rows[i], i - 1, mapping)]

(***************************************************************************)
(* lib/mapper: the validator.  A warning text is its template and the      *)
(* values the template interpolates.                                       *)
(***************************************************************************)
\* `LAND could not be mapped from "${original}", defaulted to ${land}`
WarnUnmapped(original, land) ==
    [kind |-> "LAND could not be mapped", col |-> "LAND",
     from |-> original, to |-> land, actual |-> 0, limit |-> 0]
\* `${col} exceeds max length (${value} > ${maxLen})`
WarnMaxLength(col, value, maxLen) ==
    [kind |-> "exceeds max length", col |-> col,
     from |-> <<>>, to |-> <<>>, actual |-> value, limit |-> maxLen]
\* `Full address exceeds max length (${fullLength} > 72)`
WarnFullAddress(fullLength) ==
    [kind |-> "Full address exceeds max length", col |-> "",
     from |-> <<>>, to |-> <<>>, actual |-> fullLength, limit |-> 72]
\* "REFERENZ must be unique"
WarnRefUnique ==
    [kind |-> "REFERENZ must be unique", col |-> "REFERENZ",
     from |-> <<>>, to |-> <<>>, actual |-> 0, limit |-> 0]

\* The limits object of validateMaxLengths, in key order.
limits ==
    << [k |-> "NAME", v |-> 50], [k |-> "ZUSATZ", v |-> 50],
       [k |-> "STRASSE", v |-> 40], [k |-> "NUMMER", v |-> 7],
       [k |-> "PLZ", v |-> 9], [k |-> "STADT", v |-> 40],
       [k |-> "LAND", v |-> 3], [k |-> "ADRESS_TYP", v |-> 99],
       [k |-> "REFERENZ", v |-> 20] >>

\* String(row[col]): REFERENZ is a number, every other field a string.
FieldString(row, col) == IF col = "REFERENZ" THEN Digits(row[col]) ELSE row[col]

\* A variant of validateMaxLengths that stops at the first failing check.
validateMaxLengthsFirstOnly(row) ==
    LET TooLong(e) == Len(FieldString(row, e.k)) > e.v
        overLimit == SelectSeq(limits, TooLong)
    IN  IF "LAND_UNMAPPED_ORIGINAL" \in DOMAIN row /\ row["LAND_UNMAPPED_ORIGINAL"] # <<>>
        THEN <<WarnUnmapped(row["LAND_UNMAPPED_ORIGINAL"], row.LAND)>>
        ELSE IF overLimit # <<>>
        THEN <<WarnMaxLength(overLimit[1].k, Len(FieldString(row, overLimit[1].k)),
                             overLimit[1].v)>>
        ELSE <<>>

validateMaxLengths(row) ==
    LET
        fullAddressFields == <<"NAME", "ZUSATZ", "STRASSE", "NUMMER", "PLZ", "STADT">>
    IN
    LET unmapped ==
            IF "LAND_UNMAPPED_ORIGINAL" \in DOMAIN row
               /\ row["LAND_UNMAPPED_ORIGINAL"] # <<>>
            THEN <<WarnUnmapped(row["LAND_UNMAPPED_ORIGINAL"], row.LAND)>>
            ELSE <<>>
        TooLong(e) == e.v # 0 /\ Len(FieldString(row, e.k)) > e.v
        overLimit == SelectSeq(limits, TooLong)
        lengths == [i \in 1..Len(overLimit) |->
                       WarnMaxLength(overLimit[i].k,
                                     Len(FieldString(row, overLimit[i].k)),
                                     overLimit[i].v)]
        NonEmpty(str) == str # <<>>
        fullAddress ==
            JoinSpace(SelectSeq([i \in 1..Len(fullAddressFields) |->
                                    trim(FieldString(row, fullAddressFields[i]))],
                                NonEmpty))
        fullLength == Len(fullAddress)
    IN  unmapped \o lengths
          \o (IF fullLength > 72 THEN <<WarnFullAddress(fullLength)>> ELSE <<>>)

(***************************************************************************)
(* App: constants.                                                         *)
(***************************************************************************)

\* The labels: "Anrede", "Vorname", "Nachname", "Stra\u00dfe", "Adresszusatz", "PLZ", "Ort", "Land".
TARGET_FIELDS ==
    << [key |-> salutation, required |-> FALSE,
        label |-> <<65, 110, 114, 101, 100, 101>>],
       [key |-> first_name, required |-> TRUE,
        label |-> <<86, 111, 114, 110, 97, 109, 101>>],
       [key |-> last_name, required |-> TRUE,
        label |-> <<78, 97, 99, 104, 110, 97, 109, 101>>],
       [key |-> street, required |-> TRUE,
        label |-> <<83, 116, 114, 97, 223, 101>>],
       [key |-> address_addition, required |-> FALSE,
        label |-> <<65, 100, 114, 101, 115, 115, 122, 117, 115, 97, 116, 122>>],
       [key |-> postal_code, required |-> TRUE,
        label |-> <<80, 76, 90>>],
       [key |-> city, required |-> TRUE,
        label |-> <<79, 114, 116>>],
       [key |-> country, required |-> TRUE,
        label |-> <<76, 97, 110, 100>>] >>

DEFAULT_SENDER ==
    [NAME |-> <<>>, ZUSATZ |-> <<>>, STRASSE |-> <<>>, NUMMER |-> <<>>,
     PLZ |-> <<>>, STADT |-> <<>>, LAND |-> DEU, ADRESS_TYP |-> HOUSE,
     REFERENZ |-> 0]

\* The empty warnings map {}.
NoWarnings == [i \in {} |-> <<>>]
\* The empty error message "".
NoError == [kind |-> "", fields |-> <<>>]
\* `Please map required fields: ${labels.join(", ")}`
ErrMissingRequired(labels) == [kind |-> "Please map required fields", fields |-> labels]
\* A message of the upload component.
ErrUpload(kind) == [kind |-> kind, fields |-> <<>>]

(***************************************************************************)
(* App: the helpers of the component.                                      *)
(***************************************************************************)
\* The indices (0-based) of the rows whose REFERENZ is ref: one value of
\* refIndexMap.
RefIndices(rows, ref) == {i \in 0..(Len(rows) - 1) : rows[i + 1].REFERENZ = ref}

\* A variant of buildWarnings that marks a shared REFERENZ only on the later
\* of the records that share it.
buildWarningsLaterOnly(rows) ==
    LET rowWarnings(i) ==
            validateMaxLengths(rows[i + 1])
              \o (IF \E j \in 0..(i - 1) : rows[j + 1].REFERENZ = rows[i + 1].REFERENZ
                  THEN <<WarnRefUnique>> ELSE <<>>)
        Warned(all) == [i \in {j \in DOMAIN all : all[j] # <<>>} |-> all[i]]
    IN  Warned([i \in 0..(Len(rows) - 1) |-> rowWarnings(i)])

buildWarnings(rows) ==
    LET rowWarnings(i) ==
            validateMaxLengths(rows[i + 1])
              \o (IF Cardinality(RefIndices(rows, rows[i + 1].REFERENZ)) > 1
                  THEN <<WarnRefUnique>> ELSE <<>>)
        \* the keys of the warnings map are the rows that have a warning
        Warned(all) == [i \in {j \in DOMAIN all : all[j] # <<>>} |-> all[i]]
    IN  Warned([i \in 0..(Len(rows) - 1) |-> rowWarnings(i)])

\* One pass of the forEach of buildMapping over the first n selections.
RECURSIVE BuildMappingUpTo(_, _)
BuildMappingUpTo(selections, n) ==
    IF n = 0 THEN <<>>
    ELSE LET mapping == BuildMappingUpTo(selections, n - 1)
             e == selections[n]
         IN  IF Truthy(e.v) THEN ObjSet(mapping, e.v.s, e.k) ELSE mapping
buildMapping(selections) == BuildMappingUpTo(selections, Len(selections))

\* The elements of a sequence.
Range(seq) == {seq[i] : i \in 1..Len(seq)}

\* seq.indexOf(x), 0-based; -1 when absent
indexOf(seq, x) ==
    IF \E i \in 1..Len(seq) : seq[i] = x
    THEN (CHOOSE i \in 1..Len(seq) :
              seq[i] = x /\ \A j \in 1..(i - 1) : seq[j] # x) - 1
    ELSE -1

\* One pass of the forEach of initSelections over the first n target fields.
RECURSIVE InitSelectionsUpTo(_, _)
InitSelectionsUpTo(incomingHeaders, n) ==
    IF n = 0 THEN <<>>
    ELSE LET selections == InitSelectionsUpTo(incomingHeaders, n - 1)
             field == TARGET_FIELDS[n]
             lowerHeaders == [i \in 1..Len(incomingHeaders) |->
                                 toLowerCase(incomingHeaders[i])]
             matching == {i \in 1..Len(DEFAULT_COLUMN_MAPPING) :
                              DEFAULT_COLUMN_MAPPING[i].v = field.key}
             sourceKey == DEFAULT_COLUMN_MAPPING[
                              CHOOSE i \in matching : \A j \in matching : i <= j].k
             idx == IF matching = {} THEN -1
                    ELSE indexOf(lowerHeaders, toLowerCase(sourceKey))
             idxTarget == indexOf(lowerHeaders, toLowerCase(field.key))
         IN  IF idx >= 0
             THEN ObjSet(selections, field.key, JsStr(incomingHeaders[idx + 1]))
             ELSE IF idxTarget >= 0
             THEN ObjSet(selections, field.key, JsStr(incomingHeaders[idxTarget + 1]))
             ELSE selections
initSelections(incomingHeaders) ==
    InitSelectionsUpTo(incomingHeaders, Len(TARGET_FIELDS))

\* A variant of missingRequired that ignores the selections: the error names
\* every required field.
missingRequiredAll(selections) ==
    LET Required(f) == f.required IN SelectSeq(TARGET_FIELDS, Required)

\* The required target fields with no truthy selection, in TARGET_FIELDS order.
missingRequired(selections) ==
    LET Missing(f) == f.required /\ ~Truthy(JsGet(selections, f.key))
    IN  SelectSeq(TARGET_FIELDS, Missing)

\* A variant of recalcMapping that sets the message for the missing fields
\* and maps the rows all the same.
recalcMappingMapsAnyway(data, selections, err) ==
    LET mapped == mapData(data, {buildMapping(selections)})
        missing == missingRequired(selections)
    IN  IF Len(data) = 0
        THEN [mappedData |-> <<>>, warnings |-> NoWarnings, error |-> err]
        ELSE [mappedData |-> mapped, warnings |-> buildWarnings(mapped),
              error |-> IF Len(missing) > 0
                        THEN ErrMissingRequired([i \in 1..Len(missing) |->
                                                    missing[i].label])
                        ELSE NoError]

\* recalcMapping(data, selections): the state it sets; err is the error
\* message before the call, which the first branch leaves alone.
recalcMapping(data, selections, err) ==
    LET Missing(missing) ==
            [mappedData |-> <<>>, warnings |-> NoWarnings,
             error |-> ErrMissingRequired([i \in 1..Len(missing) |-> missing[i].label])]
    IN  IF Len(data) = 0
        THEN [mappedData |-> <<>>, warnings |-> NoWarnings, error |-> err]
        ELSE IF Len(missingRequired(selections)) > 0
        THEN Missing(missingRequired(selections))
        ELSE CHOOSE r \in {[mappedData |-> mapped, warnings |-> buildWarnings(mapped),
                            error |-> NoError] :
                           mapped \in {mapData(data, {buildMapping(selections)})}} : TRUE

\* A variant of handleEditRow that leaves the warnings as they were.
handleEditRowKeepWarnings(prev, prevWarnings, rowIndex, updatedRow) ==
    IF rowIndex \notin 0..(Len(prev) - 1)
    THEN [mappedData |-> prev, warnings |-> prevWarnings, changed |-> FALSE]
    ELSE [mappedData |-> [prev EXCEPT ![rowIndex + 1] = updatedRow],
          warnings |-> prevWarnings, changed |-> TRUE]

\* A variant of handleEditRow that lays the submitted record over the one
\* it has: nextData[rowIndex] = {...prev[rowIndex], ...updatedRow}.
handleEditRowMerge(prev, prevWarnings, rowIndex, updatedRow) ==
    IF rowIndex \notin 0..(Len(prev) - 1)
    THEN [mappedData |-> prev, warnings |-> prevWarnings, changed |-> FALSE]
    ELSE LET nextData == [prev EXCEPT ![rowIndex + 1] = updatedRow @@ prev[rowIndex + 1]]
         IN  [mappedData |-> nextData, warnings |-> buildWarnings(nextData),
              changed |-> TRUE]

\* handleEditRow(rowIndex, updatedRow) on the record set prev: the state it
\* sets; changed is FALSE when the updater returns prev itself.
handleEditRow(prev, prevWarnings, rowIndex, updatedRow) ==
    IF rowIndex \notin 0..(Len(prev) - 1)
    THEN [mappedData |-> prev, warnings |-> prevWarnings, changed |-> FALSE]
    ELSE LET nextData == [prev EXCEPT ![rowIndex + 1] = updatedRow]
         IN  [mappedData |-> nextData, warnings |-> buildWarnings(nextData),
              changed |-> TRUE]

\* A variant of handleDeleteRow that filters the record out and keeps the
\* REFERENZ of the others.
handleDeleteRowKeepReferenz(prev, prevWarnings, rowIndex) ==
    IF rowIndex \notin 0..(Len(prev) - 1)
    THEN [mappedData |-> prev, warnings |-> prevWarnings, changed |-> FALSE]
    ELSE LET filtered == [i \in 1..(Len(prev) - 1) |->
                             IF i <= rowIndex THEN prev[i] ELSE prev[i + 1]]
         IN  [mappedData |-> filtered, warnings |-> buildWarnings(filtered),
              changed |-> TRUE]

\* A variant of handleDeleteRow that keeps the warnings map it has.
handleDeleteRowStaleWarnings(prev, prevWarnings, rowIndex) ==
    IF rowIndex \notin 0..(Len(prev) - 1)
    THEN [mappedData |-> prev, warnings |-> prevWarnings, changed |-> FALSE]
    ELSE LET filtered == [i \in 1..(Len(prev) - 1) |->
                             IF i <= rowIndex THEN prev[i] ELSE prev[i + 1]]
             reindexed == [i \in 1..Len(filtered) |->
                              [filtered[i] EXCEPT !.REFERENZ = i]]
         IN  [mappedData |-> reindexed, warnings |-> prevWarnings,
              changed |-> TRUE]

\* handleDeleteRow(rowIndex) on the record set prev.
handleDeleteRow(prev, prevWarnings, rowIndex) ==
    IF rowIndex \notin 0..(Len(prev) - 1)
    THEN [mappedData |-> prev, warnings |-> prevWarnings, changed |-> FALSE]
    ELSE LET filtered == [i \in 1..(Len(prev) - 1) |->
                             IF i <= rowIndex THEN prev[i] ELSE prev[i + 1]]
             reindexed == [i \in 1..Len(filtered) |->
                              [filtered[i] EXCEPT !.REFERENZ = i]]
         IN  [mappedData |-> reindexed, warnings |-> buildWarnings(reindexed),
              changed |-> TRUE]

(***************************************************************************)
(* MappedTable: the row editor.                                            *)
(***************************************************************************)
\* updateDraftField(field, value) on the draft prev: setting LAND by hand
\* drops the unmapped-original mark.
updateDraftField(prev, field, value) ==
    IF field = "LAND"
    THEN LET rest == [f \in (DOMAIN prev) \ {"LAND_UNMAPPED_ORIGINAL"} |-> prev[f]]
         IN  [rest EXCEPT !["LAND"] = value]
    ELSE [prev EXCEPT ![field] = value]

(***************************************************************************)
(* MappedTable: the export.                                                *)
(***************************************************************************)
\* The columns of the export: the field and its name as text.
HEADERS ==
    << [key |-> "NAME", text |-> <<78, 65, 77, 69>>],
       [key |-> "ZUSATZ", text |-> <<90, 85, 83, 65, 84, 90>>],
       [key |-> "STRASSE", text |-> <<83, 84, 82, 65, 83, 83, 69>>],
       [key |-> "NUMMER", text |-> <<78, 85, 77, 77, 69, 82>>],
       [key |-> "PLZ", text |-> <<80, 76, 90>>],
       [key |-> "STADT", text |-> <<83, 84, 65, 68, 84>>],
       [key |-> "LAND", text |-> <<76, 65, 78, 68>>],
       [key |-> "ADRESS_TYP", text |-> <<65, 68, 82, 69, 83, 83, 95, 84, 89, 80>>],
       [key |-> "REFERENZ", text |-> <<82, 69, 70, 69, 82, 69, 78, 90>>] >>

\* parts.join(sep)
RECURSIVE Join(_, _)
Join(parts, sep) ==
    IF parts = <<>> THEN <<>>
    ELSE IF Len(parts) = 1 THEN parts[1]
    ELSE parts[1] \o sep \o Join(Tail(parts), sep)

\* A variant of escapeCSVValue that encloses the value and leaves the
\* quotation marks within single.
escapeCSVValueNoDoubling(value) ==
    IF Includes(value, <<59>>) \/ Includes(value, <<10>>) \/ Includes(value, <<34>>)
    THEN <<34>> \o value \o <<34>>
    ELSE value

escapeCSVValue(value) ==
    LET \* value.replace(/"/g, '""') up to the n-th character
        RECURSIVE DoubleQuotes(_)
        DoubleQuotes(n) ==
            IF n = 0 THEN <<>>
            ELSE DoubleQuotes(n - 1)
                    \o (IF value[n] = 34 THEN <<34, 34>> ELSE <<value[n]>>)
        Quoted(escaped) ==
            IF Includes(escaped, <<59>>) \/ Includes(escaped, <<10>>)
               \/ Includes(escaped, <<34>>)
            THEN <<34>> \o escaped \o <<34>>
            ELSE escaped
    IN  Quoted(DoubleQuotes(Len(value)))

\* A variant of buildCSVContent that puts the sender after the rows.
buildCSVContentSenderLast(rows, senderRow) ==
    LET rowsWithSender == IF senderRow # {}
                          THEN rows \o <<CHOOSE s \in senderRow : TRUE>>
                          ELSE rows
        \* one line: the fields of the row in the order of HEADERS
        CSVLine(row) ==
            Join([n \in 1..Len(HEADERS) |->
                     escapeCSVValue(FieldString(row, HEADERS[n].key))], <<59>>)
    IN  Join(<<Join([n \in 1..Len(HEADERS) |-> HEADERS[n].text], <<59>>)>>
                \o [k \in 1..Len(rowsWithSender) |-> CSVLine(rowsWithSender[k])],
             <<10>>)

\* senderRow is {} for no sender (null, undefined), {s} for the sender s.
buildCSVContent(rows, senderRow) ==
    LET rowsWithSender == IF senderRow # {}
                          THEN <<CHOOSE s \in senderRow : TRUE>> \o rows
                          ELSE rows
        \* one line: the fields of the row in the order of HEADERS
        CSVLine(row) ==
            Join([n \in 1..Len(HEADERS) |->
                     escapeCSVValue(FieldString(row, HEADERS[n].key))], <<59>>)
    IN  Join(<<Join([n \in 1..Len(HEADERS) |-> HEADERS[n].text], <<59>>)>>
                \o [k \in 1..Len(rowsWithSender) |-> CSVLine(rowsWithSender[k])],
             <<10>>)

\* A variant of isGermanLand that compares the text as it is.
isGermanLandExact(land) ==
    land \in {<<68, 69>>, <<68, 69, 85>>, <<71, 69, 82, 77, 65, 78, 89>>}

isGermanLand(land) ==
    toUpperCase(trim(land)) \in {<<68, 69>>, <<68, 69, 85>>, <<71, 69, 82, 77, 65, 78, 89>>}

\* downloadCSV(scope) with the props data and senderRow: the text handed to
\* createCSVBlob.
downloadCSV(data, senderRow, scope) ==
    LET German(row) == isGermanLand(row.LAND)
        Foreign(row) == ~isGermanLand(row.LAND)
        targetRows == IF scope = "all" THEN data
                      ELSE IF scope = "local" THEN SelectSeq(data, German)
                      ELSE SelectSeq(data, Foreign)
    IN  buildCSVContent(targetRows, senderRow)

\* A variant of the table without the euro sign.
CP1252_WITHOUT_EURO ==
    (8218 :> 130) @@ (402 :> 131) @@ (8222 :> 132) @@ (8230 :> 133) @@ (8224 :> 134) @@
    (8225 :> 135) @@ (710 :> 136) @@ (8240 :> 137) @@ (352 :> 138) @@ (8249 :> 139) @@
    (338 :> 140) @@ (381 :> 142) @@ (8216 :> 145) @@ (8217 :> 146) @@ (8220 :> 147) @@
    (8221 :> 148) @@ (8226 :> 149) @@ (8211 :> 150) @@ (8212 :> 151) @@ (732 :> 152) @@
    (8482 :> 153) @@ (353 :> 154) @@ (8250 :> 155) @@ (339 :> 156) @@ (382 :> 158) @@
    (376 :> 159)

\* The code points outside Latin-1 that have a byte (0x20ac: 0x80, ...).
CP1252_CODEPOINT_TO_BYTE ==
    (8364 :> 128) @@ (8218 :> 130) @@ (402 :> 131) @@ (8222 :> 132) @@ (8230 :> 133) @@
    (8224 :> 134) @@ (8225 :> 135) @@ (710 :> 136) @@ (8240 :> 137) @@ (352 :> 138) @@
    (8249 :> 139) @@ (338 :> 140) @@ (381 :> 142) @@ (8216 :> 145) @@ (8217 :> 146) @@
    (8220 :> 147) @@ (8221 :> 148) @@ (8226 :> 149) @@ (8211 :> 150) @@ (8212 :> 151) @@
    (732 :> 152) @@ (8482 :> 153) @@ (353 :> 154) @@ (8250 :> 155) @@ (339 :> 156) @@
    (382 :> 158) @@ (376 :> 159)

\* A variant of toCP1252Bytes that takes every code point up to 0xff as
\* its byte.
toCP1252BytesLatin1(input) ==
    [i \in 1..Len(input) |->
        IF input[i] <= 255 THEN input[i]
        ELSE IF input[i] \in DOMAIN CP1252_CODEPOINT_TO_BYTE
        THEN CP1252_CODEPOINT_TO_BYTE[input[i]]
        ELSE 63]

\* The bytes of the text: one for each code point of the for-of loop.
toCP1252Bytes(input) ==
    [i \in 1..Len(input) |->
        IF input[i] <= 127 THEN input[i]
        ELSE IF input[i] >= 160 /\ input[i] <= 255 THEN input[i]
        ELSE IF input[i] \in DOMAIN CP1252_CODEPOINT_TO_BYTE
        THEN CP1252_CODEPOINT_TO_BYTE[input[i]]
        ELSE 63]

(***************************************************************************)
(* The persisted blob.  The text under the storage key is modelled by what *)
(* it is to the program: absent, empty, not parsable, or the JSON value it *)
(* parses to.  A field of the JSON object is absent or a typed value.      *)
(***************************************************************************)
ArrayField(v) == [type |-> "array", v |-> v]
ObjectField(v) == [type |-> "object", v |-> v]
\* A JSON string where an array is expected.
StringField(v) == [type |-> "string", v |-> v]

NonObject(kind) ==
    LET
        NoField == [type |-> "absent", v |-> <<>>]
    IN
    [kind |-> kind, mappedData |-> NoField, rawData |-> NoField,
     sender |-> NoField, headers |-> NoField, columnSelections |-> NoField]

\* No entry under the storage key.
AbsentBlob == NonObject("absent")

\* JSON.stringify of the selections: keys whose value is undefined are dropped.
StringifySelections(selections) ==
    LET Defined(e) == e.v.t # "undefined" IN SelectSeq(selections, Defined)

\* JSON.stringify({mappedData, rawData, sender, headers, columnSelections})
Stringify(md, rd, sd, hd, cs) ==
    [kind |-> "object", mappedData |-> ArrayField(md), rawData |-> ArrayField(rd),
     sender |-> ObjectField(sd), headers |-> ArrayField(hd),
     columnSelections |-> ObjectField(StringifySelections(cs))]

\* A variant of loadFromStorage without the try/catch: what JSON.parse
\* throws leaves it.
loadFromStorageNoCatch(blob) ==
    [threw |-> blob.kind = "unparsable",
     isNull |-> blob.kind \in {"absent", "empty", "unparsable", "null"},
     obj |-> blob]

\* loadFromStorage(): isNull when it returns null; threw when an exception
\* leaves it (never: the catch swallows what JSON.parse throws).
loadFromStorage(blob) ==
    [threw |-> FALSE,
     isNull |-> blob.kind \in {"absent", "empty", "unparsable", "null"},
     obj |-> blob]

\* What is under the storage key, as start-up sees it: no entry, an empty
\* text, a text JSON.parse rejects, the JSON null, the object the
\* persistence effect writes ("object"), or an object of another shape.
ShapeOf(blob) ==
    IF blob.kind # "object" THEN blob.kind
    ELSE IF /\ blob.mappedData.type = "array" /\ blob.rawData.type = "array"
            /\ blob.sender.type = "object" /\ blob.headers.type = "array"
            /\ blob.columnSelections.type = "object"
    THEN "object"
    ELSE "misshapen"

\* stored?.field || fallback
StoredOr(stored, field, fallback) ==
    IF stored.isNull \/ stored.obj[field].type = "absent" THEN fallback
    ELSE stored.obj[field].v

(***************************************************************************)
(* FileUpload: a file is what the parsers make of it.  ext is the name's   *)
(* extension, reads is FALSE when the parser reports an error or throws,   *)
(* sheets are the parsed tables (one for a CSV file), each with its rows   *)
(* and its header list.                                                    *)
(***************************************************************************)
kStaat == <<83, 116, 97, 97, 116>>  \* "Staat"
\* Every target field has a column of its default name.
HeadersA == <<kVorname, kName, kAdresse1, kAdresse2, kPLZ, kOrt, kLand>>
\* No column for the country under a name initSelections knows.
HeadersB == <<kVorname, kName, kAdresse1, kPLZ, kOrt, kStaat>>

\* The row of a sheet: its header list zipped with its cells.
MakeRow(hdrs, cells) == [i \in 1..Len(hdrs) |-> [k |-> hdrs[i], v |-> cells[i]]]

\* Rows of the sample sheets.
RowPoolA ==
    <<
       \* Max | Mustermann | Blumenstra\u00dfe 5 | "" | 10115 | Berlin | Deutschland
       MakeRow(HeadersA, <<
           JsStr(<<77, 97, 120>>),
           JsStr(<<77, 117, 115, 116, 101, 114, 109, 97, 110, 110>>),
           JsStr(<<66, 108, 117, 109, 101, 110, 115, 116, 114, 97, 223, 101, 32, 53>>),
           JsStr(<<>>),
           JsNum(10115),
           JsStr(<<66, 101, 114, 108, 105, 110>>),
           JsStr(<<68, 101, 117, 116, 115, 99, 104, 108, 97, 110, 100>>) >>),
       \* Erika | Musterfrau | 12  Main Street | Postfach 123 | 1010 |  Wien  | Atlantis
       MakeRow(HeadersA, <<
           JsStr(<<69, 114, 105, 107, 97>>),
           JsStr(<<77, 117, 115, 116, 101, 114, 102, 114, 97, 117>>),
           JsStr(<<49, 50, 32, 32, 77, 97, 105, 110, 32, 83, 116, 114, 101, 101, 116>>),
           JsStr(<<80, 111, 115, 116, 102, 97, 99, 104, 32, 49, 50, 51>>),
           JsStr(<<49, 48, 49, 48>>),
           JsStr(<<32, 87, 105, 101, 110, 32>>),
           JsStr(<<65, 116, 108, 97, 110, 116, 105, 115>>) >>),
       \* "" | Huber | Weg 12345678 | "" | 8001 | Z\u00fcrich | ch
       MakeRow(HeadersA, <<
           JsStr(<<>>),
           JsStr(<<72, 117, 98, 101, 114>>),
           JsStr(<<87, 101, 103, 32, 49, 50, 51, 52, 53, 54, 55, 56>>),
           JsStr(<<>>),
           JsStr(<<56, 48, 48, 49>>),
           JsStr(<<90, 252, 114, 105, 99, 104>>),
           JsStr(<<99, 104>>) >>),
       \* Anna | Egger | Hauptweg | "" | "" | "" | AT
       MakeRow(HeadersA, <<
           JsStr(<<65, 110, 110, 97>>),
           JsStr(<<69, 103, 103, 101, 114>>),
           JsStr(<<72, 97, 117, 112, 116, 119, 101, 103>>),
           JsStr(<<>>),
           JsStr(<<>>),
           JsStr(<<>>),
           JsStr(<<65, 84>>) >>)
    >>

RowPoolB ==
    <<
       \* Max | Mustermann | Blumenstra\u00dfe 5 | 10115 | Berlin | Atlantis
       MakeRow(HeadersB, <<
           JsStr(<<77, 97, 120>>),
           JsStr(<<77, 117, 115, 116, 101, 114, 109, 97, 110, 110>>),
           JsStr(<<66, 108, 117, 109, 101, 110, 115, 116, 114, 97, 223, 101, 32, 53>>),
           JsNum(10115),
           JsStr(<<66, 101, 114, 108, 105, 110>>),
           JsStr(<<65, 116, 108, 97, 110, 116, 105, 115>>) >>),
       \* Erika | Musterfrau | Hauptweg | 1010 | Wien | Austria
       MakeRow(HeadersB, <<
           JsStr(<<69, 114, 105, 107, 97>>),
           JsStr(<<77, 117, 115, 116, 101, 114, 102, 114, 97, 117>>),
           JsStr(<<72, 97, 117, 112, 116, 119, 101, 103>>),
           JsStr(<<49, 48, 49, 48>>),
           JsStr(<<87, 105, 101, 110>>),
           JsStr(<<65, 117, 115, 116, 114, 105, 97>>) >>),
       \* "" | Huber | Weg 12345678 | 8001 | Z\u00fcrich | ch
       MakeRow(HeadersB, <<
           JsStr(<<>>),
           JsStr(<<72, 117, 98, 101, 114>>),
           JsStr(<<87, 101, 103, 32, 49, 50, 51, 52, 53, 54, 55, 56>>),
           JsStr(<<56, 48, 48, 49>>),
           JsStr(<<90, 252, 114, 105, 99, 104>>),
           JsStr(<<99, 104>>) >>),
       \* Anna | Egger | Hauptweg 3 | "" | "" | AT
       MakeRow(HeadersB, <<
           JsStr(<<65, 110, 110, 97>>),
           JsStr(<<69, 103, 103, 101, 114>>),
           JsStr(<<72, 97, 117, 112, 116, 119, 101, 103, 32, 51>>),
           JsStr(<<>>),
           JsStr(<<>>),
           JsStr(<<65, 84>>) >>)
    >>

Min(a, b) == IF a < b THEN a ELSE b
Sheet(rows, hdrs) == [rows |-> rows, headers |-> hdrs]
SheetA(n) == Sheet(SubSeq(RowPoolA, 1, Min(n, Len(RowPoolA))), HeadersA)
EmptySheet == Sheet(<<>>, <<>>)

\* The files a user uploads.
Files ==
    LET
        kStadt == <<83, 116, 97, 100, 116>>  \* "Stadt"

        \* Neither for the city nor for the country.
        HeadersC == <<kVorname, kName, kAdresse1, kPLZ, kStadt, kStaat>>

        File(ext, reads, sheets) == [ext |-> ext, reads |-> reads, sheets |-> sheets]

        SheetB(n) == Sheet(SubSeq(RowPoolB, 1, Min(n, Len(RowPoolB))), HeadersB)

        SheetC(n) ==
            Sheet([i \in 1..Min(n, Len(RowPoolB)) |->
                      MakeRow(HeadersC, [j \in 1..Len(HeadersC) |-> RowPoolB[i][j].v])],
                  HeadersC)
    IN
    { File("csv", TRUE, <<SheetA(MaxRows)>>), File("xlsx", TRUE, <<SheetB(1)>>),
      File("csv", TRUE, <<EmptySheet>>), File("csv", FALSE, <<>>),
      File("xlsx", TRUE, <<EmptySheet>>), File("xlsx", TRUE, <<>>),
      File("xlsx", FALSE, <<>>), File("txt", TRUE, <<>>),
      File("ods", TRUE, <<EmptySheet, SheetC(1)>>) }

\* What parseFile (with parseCSV, parseExcel and their callbacks) ends in:
\* onDataLoaded(rows, headers), onError(message) or the sheet selector.
parseFile(file) ==
    IF file.ext = "csv"
    THEN IF ~file.reads
         THEN [call |-> "onError", message |-> ErrUpload("CSV parsing error"),
               sheet |-> EmptySheet]
         ELSE IF Len(file.sheets[1].rows) > 0
         THEN [call |-> "onDataLoaded", message |-> NoError, sheet |-> file.sheets[1]]
         ELSE [call |-> "onError", message |-> ErrUpload("No data found in CSV file"),
               sheet |-> EmptySheet]
    ELSE IF file.ext \in {"xlsx", "xls", "ods"}
    THEN IF ~file.reads
         THEN [call |-> "onError", message |-> ErrUpload("File parsing error"),
               sheet |-> EmptySheet]
         ELSE IF Len(file.sheets) = 0
         THEN [call |-> "onError", message |-> ErrUpload("No sheets found in file"),
               sheet |-> EmptySheet]
         ELSE IF Len(file.sheets) = 1
         THEN IF Len(file.sheets[1].rows) > 0
              THEN [call |-> "onDataLoaded", message |-> NoError,
                    sheet |-> file.sheets[1]]
              ELSE [call |-> "onError", message |-> ErrUpload("No data found in file"),
                    sheet |-> EmptySheet]
         ELSE [call |-> "setSheetSelector", message |-> NoError, sheet |-> EmptySheet]
    ELSE [call |-> "onError", message |-> ErrUpload("Unsupported file format"),
          sheet |-> EmptySheet]

\* What handleSheetSelection(workbook, sheetName) ends in.
handleSheetSelection(sheet) ==
    IF Len(sheet.rows) > 0
    THEN [call |-> "onDataLoaded", message |-> NoError, sheet |-> sheet]
    ELSE [call |-> "onError", message |-> ErrUpload("No data found in selected sheet"),
          sheet |-> EmptySheet]

(***************************************************************************)
(* State.                                                                  *)
(***************************************************************************)
VARIABLES
    mappedData,        \* App: the record set
    rawData,           \* App: the raw rows of the last upload
    sender,            \* App: the sender record
    headers,           \* App: the header list of the last upload
    columnSelections,  \* App: target field -> selected source column
    warnings,          \* App: record index (0-based) -> warning list
    senderWarnings,    \* App: the sender's warning list
    error,             \* App: the batch-level error message
    sheetSelector,     \* FileUpload: the sheets to choose among, <<>> when closed
    storage,           \* localStorage: what is under STORAGE_KEY
    crashed,           \* an exception left a render or an effect
    lastOp,            \* history: the last handler, and what it replaced
    call,              \* a call of a function on its own: its argument and
                       \* its result
    upload             \* FileUpload: isLoading, the read in flight, and the
                       \* callbacks of the last parseFile

vars == <<mappedData, rawData, sender, headers, columnSelections, warnings,
          senderWarnings, error, sheetSelector, storage, crashed, lastOp, call, upload>>

\* The state of App and the storage as one record: what a handler and the
\* effects after it read and set.
AppState ==
    [mappedData |-> mappedData, rawData |-> rawData, sender |-> sender,
     headers |-> headers, columnSelections |-> columnSelections,
     warnings |-> warnings, senderWarnings |-> senderWarnings,
     error |-> error, storage |-> storage]

\* The state s is the next state of App and the storage.
Becomes(s) ==
    /\ mappedData' = s.mappedData
    /\ rawData' = s.rawData
    /\ sender' = s.sender
    /\ headers' = s.headers
    /\ columnSelections' = s.columnSelections
    /\ warnings' = s.warnings
    /\ senderWarnings' = s.senderWarnings
    /\ error' = s.error
    /\ storage' = s.storage

\* op: the handler; prev: the record set a reload replaced; n: the number
\* of records a re-selection replaced, or the index an edit or a deletion
\* was called with; note: what a start-up read, or what a reassignment of
\* REFERENZ did.
Op(op, prev, n, note) ==
    [op |-> op, prev |-> prev, n |-> n, note |-> note]

\* No file is being read, and parseFile has not run.
NoUpload == [isLoading |-> FALSE, task |-> "", file |-> <<>>, calls |-> <<>>]

\* No function is called on its own.
NoCall == [fn |-> "", arg |-> <<>>, done |-> FALSE, result |-> <<>>]

\* The user can act on the page behind the sheet selector's modal dialog.
Page == ~crashed /\ sheetSelector = <<>>

hasData == Len(mappedData) > 0

(***************************************************************************)
(* Effects.  After a commit, the effects whose dependencies changed run,   *)
(* in the order of their declaration, each on the committed state; what    *)
(* they set is committed next, and the effects run again for that commit.  *)
(***************************************************************************)
\* A variant of the recalc effect that does nothing.
recalcEffectSkipped(s) == s

\* useEffect(() => recalcMapping(rawData, columnSelections), [rawData,
\* columnSelections, recalcMapping])
recalcEffect(s) == recalcMapping(s.rawData, s.columnSelections, s.error) @@ s

\* useEffect(() => setSenderWarnings(...), [sender])
senderEffect(s) == [s EXCEPT !.senderWarnings = validateMaxLengths(s.sender)]

\* useEffect(() => localStorage.setItem(STORAGE_KEY, ...), [mappedData,
\* rawData, sender, headers, columnSelections])
persistEffect(s) ==
    [s EXCEPT !.storage = Stringify(s.mappedData, s.rawData, s.sender,
                                    s.headers, s.columnSelections)]

\* The state once every effect has run, from the committed state s0 in which
\* the state variables in deps were set.  The persistence effect of the
\* first commit writes that commit's values; the recalc effect always sets
\* a fresh mappedData, so the persistence effect runs again after it.
RunEffects(s0, deps) ==
    LET recalcRuns == deps \cap {"rawData", "columnSelections"} # {}
        persistFirst(s) == IF deps # {} THEN persistEffect(s) ELSE s
        recalc(s) == IF recalcRuns THEN recalcEffect(s) ELSE s
        senderCheck(s) == IF "sender" \in deps THEN senderEffect(s) ELSE s
        persistAgain(s) == IF recalcRuns THEN persistEffect(s) ELSE s
    IN  CHOOSE s4 \in {persistAgain(s3) : s3 \in
                {senderCheck(s2) : s2 \in
                   {recalc(s1) : s1 \in
                      {persistFirst(s) : s \in {s0}}}}} : TRUE

AllState == {"mappedData", "rawData", "sender", "headers", "columnSelections"}

(***************************************************************************)
(* Start-up: the component's state initialisation from the stored blob,    *)
(* its first render, and the effects, which all run after the first commit.*)
(***************************************************************************)
\* The state the useState calls of App create from the blob.
InitialState(blob) ==
    LET stored == loadFromStorage(blob)
    IN  [mappedData |-> StoredOr(stored, "mappedData", <<>>),
         rawData |-> StoredOr(stored, "rawData", <<>>),
         sender |-> StoredOr(stored, "sender", DEFAULT_SENDER),
         headers |-> StoredOr(stored, "headers", <<>>),
         columnSelections |-> StoredOr(stored, "columnSelections", <<>>),
         warnings |-> NoWarnings, senderWarnings |-> <<>>, error |-> NoError,
         storage |-> blob]

\* An exception leaves start-up: loadFromStorage throws, or the first render
\* does (hasData renders MappedTable, whose data.filter needs an array).
StartThrows(blob) ==
    \/ loadFromStorage(blob).threw
    \/ blob.mappedData.type = "string" /\ Len(InitialState(blob).mappedData) > 0

AppStart(blob) ==
    IF StartThrows(blob) THEN InitialState(blob)
    ELSE RunEffects(InitialState(blob), AllState)

\* The first visit: nothing under the storage key.
Init ==
    /\ \E s \in {AppStart(AbsentBlob)} :
          /\ mappedData = s.mappedData /\ rawData = s.rawData
          /\ sender = s.sender /\ headers = s.headers
          /\ columnSelections = s.columnSelections /\ warnings = s.warnings
          /\ senderWarnings = s.senderWarnings /\ error = s.error
          /\ storage = s.storage
    /\ sheetSelector = <<>>
    /\ crashed = StartThrows(AbsentBlob)
    /\ lastOp = Op("start", <<>>, 0, ShapeOf(AbsentBlob))
    /\ call = NoCall
    /\ upload = NoUpload

\* The page is loaded again: every component starts over from the blob.
Reload ==
    /\ \E s \in {AppStart(storage)} : Becomes(s)
    /\ sheetSelector' = <<>>
    /\ crashed' = StartThrows(storage)
    /\ lastOp' = Op("reload", mappedData, 0, ShapeOf(storage))
    /\ UNCHANGED <<call, upload>>

(***************************************************************************)
(* Handlers: the state each commits.                                       *)
(***************************************************************************)
\* handleDataLoaded(data, incomingHeaders)
handleDataLoaded(s, data, incomingHeaders) ==
    LET Selected(selections) ==
            recalcMapping(data, selections, s.error)
              @@ [s EXCEPT !.rawData = data, !.headers = incomingHeaders,
                           !.columnSelections = selections]
    IN  Selected(initSelections(incomingHeaders))

\* A variant of handleError that only sets the message.
handleErrorKeepRows(s, errorMessage) == [s EXCEPT !.error = errorMessage]

\* handleError(errorMessage)
handleError(s, errorMessage) ==
    [s EXCEPT !.error = errorMessage, !.rawData = <<>>, !.mappedData = <<>>,
              !.warnings = NoWarnings]

\* setColumnSelections((prev) => ({...prev, [key]: value}))
setColumnSelection(s, key, value) ==
    [s EXCEPT !.columnSelections = ObjSet(s.columnSelections, key, value)]

\* The setMappedData updater of handleEditRow and handleDeleteRow: r is the
\* result of the handler.
setRows(s, r) == [s EXCEPT !.mappedData = r.mappedData, !.warnings = r.warnings]

\* setSender((prev) => ({...prev, NAME: value}))
setSenderName(s, value) == [s EXCEPT !.sender = [s.sender EXCEPT !.NAME = value]]

\* handleClearAll(): the state is reset and the blob removed.
handleClearAll(s) ==
    [mappedData |-> <<>>, rawData |-> <<>>, sender |-> DEFAULT_SENDER,
     headers |-> <<>>, columnSelections |-> <<>>, warnings |-> NoWarnings,
     senderWarnings |-> <<>>, error |-> NoError, storage |-> AbsentBlob]

(***************************************************************************)
(* Actions: a handler, its commit and the effects after it.                *)
(***************************************************************************)
\* What the upload component does with the outcome of a parse.
Deliver(outcome, selectorAfterLoad) ==
    LET loaded == outcome.call = "onDataLoaded"
    IN  /\ \E s \in {RunEffects(IF loaded
                                THEN handleDataLoaded(AppState, outcome.sheet.rows,
                                                      outcome.sheet.headers)
                                ELSE handleError(AppState, outcome.message),
                                IF loaded
                                THEN {"rawData", "headers", "columnSelections",
                                      "mappedData"}
                                ELSE {"rawData", "mappedData"})} : Becomes(s)
        /\ sheetSelector' = IF loaded THEN selectorAfterLoad ELSE sheetSelector
        /\ lastOp' = Op(IF loaded THEN "upload" ELSE "uploadError", <<>>, 0, "")
        /\ UNCHANGED <<crashed, call>>

\* What the callbacks of parseCSV and parseExcel do with the outcome of
\* the parse of the file.
Settle(file, outcome) ==
    IF outcome.call = "setSheetSelector"
    THEN /\ sheetSelector' = file.sheets
         /\ lastOp' = Op("sheetSelector", <<>>, 0, "")
         /\ UNCHANGED <<mappedData, rawData, sender, headers,
                        columnSelections, warnings, senderWarnings,
                        error, storage, crashed, call>>
    ELSE Deliver(outcome, sheetSelector)

\* The user drops or picks a file, and the file is read and parsed.
UploadFile ==
    /\ Page
    /\ \E file \in Files : Settle(file, parseFile(file))
    /\ UNCHANGED upload

\* The user picks a sheet of a workbook with several.
SelectSheet ==
    /\ ~crashed /\ sheetSelector # <<>>
    /\ \E i \in 1..Len(sheetSelector) :
          Deliver(handleSheetSelection(sheetSelector[i]), <<>>)
    /\ UNCHANGED upload

\* The user closes the sheet selector.
CloseSheetSelector ==
    /\ ~crashed /\ sheetSelector # <<>>
    /\ sheetSelector' = <<>>
    /\ lastOp' = Op("closeSelector", <<>>, 0, "")
    /\ UNCHANGED <<mappedData, rawData, sender, headers, columnSelections,
                   warnings, senderWarnings, error, storage, crashed, call,
                   upload>>

\* The user re-selects the source column of a target field ("none" is
\* offered for the fields that are not required).
SelectColumn ==
    LET
        \* The target fields whose column the user re-selects.
        SelectFields == {country, address_addition}

        \* The columns offered that the user picks among.
        SelectableHeaders == {kStaat, kAdresse2}
    IN
    /\ Page /\ Len(rawData) > 0
    /\ \E i \in 1..Len(TARGET_FIELDS) :
          LET field == TARGET_FIELDS[i]
              offered == {JsStr(headers[j]) : j \in {j \in 1..Len(headers) :
                                                 headers[j] \in SelectableHeaders}}
                           \cup (IF field.required THEN {} ELSE {Undefined})
          IN  /\ field.key \in SelectFields
              /\ \E value \in offered :
                    \E s \in {RunEffects(setColumnSelection(AppState, field.key, value),
                                         {"columnSelections"})} : Becomes(s)
    /\ lastOp' = Op("select", <<>>, Len(mappedData), "")
    /\ UNCHANGED <<sheetSelector, crashed, call, upload>>

\* The commit of a handler of the record set and the effects after it.
CommitRows(r, op, rowIndex) ==
    /\ \E s \in {RunEffects(setRows(AppState, r),
                            IF r.changed THEN {"mappedData"} ELSE {})} : Becomes(s)
    /\ lastOp' = Op(op, <<>>, rowIndex, "")
    /\ UNCHANGED <<sheetSelector, crashed, call, upload>>

\* The user edits the row shown at position p: Edit opens the editor on the
\* record at index REFERENZ - 1, the user changes a field, Save hands the
\* draft to onEditRow.
EditRow ==
    LET
        \* What the user types or picks in the editor of a row, [field, value]: a
        \* country for a row whose country could not be mapped, and else the house
        \* number "12345678".
        EditChoices(row) ==
            IF "LAND_UNMAPPED_ORIGINAL" \in DOMAIN row
            THEN { [field |-> "LAND", value |-> countriesData[2].alpha3Code] }
            ELSE { [field |-> "NUMMER", value |-> <<49, 50, 51, 52, 53, 54, 55, 56>>] }
    IN
    /\ Page /\ hasData
    /\ \E p \in 1..Len(mappedData) :
          LET rowIndex == mappedData[p].REFERENZ - 1
          IN  /\ rowIndex \in 0..(Len(mappedData) - 1)
              /\ \E c \in EditChoices(mappedData[rowIndex + 1]) :
                      CommitRows(handleEditRow(mappedData, warnings, rowIndex,
                                updateDraftField(mappedData[rowIndex + 1],
                                                 c.field, c.value)),
                            "edit", rowIndex)

\* The user deletes the row shown at position p and confirms.
DeleteRow ==
    /\ Page /\ hasData
    /\ \E p \in 1..Len(mappedData) :
          CommitRows(handleDeleteRow(mappedData, warnings,
                                     mappedData[p].REFERENZ - 1),
                     "delete", mappedData[p].REFERENZ - 1)

\* The user types the sender's name.
EditSender ==
    LET
        \* What the user types as the sender's name.
        SenderNames == { <<77, 97, 120>> }  \* "Max"
    IN
    /\ Page
    /\ \E name \in SenderNames :
          \E s \in {RunEffects(setSenderName(AppState, name), {"sender"})} :
              Becomes(s)
    /\ lastOp' = Op("sender", <<>>, 0, "")
    /\ UNCHANGED <<sheetSelector, crashed, call, upload>>

\* The user confirms Clear All.
ClearAll ==
    /\ Page
    /\ \E s \in {RunEffects(handleClearAll(AppState), AllState)} : Becomes(s)
    /\ lastOp' = Op("clear", <<>>, 0, "")
    /\ UNCHANGED <<sheetSelector, crashed, call, upload>>

Next ==
    \/ UploadFile
    \/ SelectSheet
    \/ CloseSheetSelector
    \/ SelectColumn
    \/ EditRow
    \/ DeleteRow
    \/ EditSender
    \/ ClearAll
    \/ Reload

Spec == Init /\ [][Next]_vars

(***************************************************************************)
(* Start-up from whatever is under the storage key.                        *)
(***************************************************************************)

InitStart ==
    LET
        \* The text 'abc' as a JSON string.
        SomeText == <<97, 98, 99>>

        \* A blob the persistence effect wrote: one row loaded and mapped.
        WrittenBlob ==
            RunEffects(handleDataLoaded(InitialState(AbsentBlob), SheetA(1).rows, HeadersA),
                       AllState).storage

        StartBlobs ==
            { AbsentBlob, NonObject("empty"), NonObject("unparsable"), NonObject("null"),
              WrittenBlob,
              \* {"rawData": [...]}: an object without the other fields
              [NonObject("object") EXCEPT !.rawData = ArrayField(SheetA(1).rows)],
              \* {"mappedData": "abc"}: a string where the record set is expected
              [NonObject("object") EXCEPT !.mappedData = StringField(SomeText)] }
    IN
    \E blob \in StartBlobs :
        /\ \E s \in {AppStart(blob)} :
              /\ mappedData = s.mappedData /\ rawData = s.rawData
              /\ sender = s.sender /\ headers = s.headers
              /\ columnSelections = s.columnSelections /\ warnings = s.warnings
              /\ senderWarnings = s.senderWarnings /\ error = s.error
              /\ storage = s.storage
        /\ sheetSelector = <<>>
        /\ crashed = StartThrows(blob)
        /\ lastOp = Op("start", <<>>, 0, ShapeOf(blob))
        /\ call = NoCall
        /\ upload = NoUpload
    /\ upload = NoUpload

SpecStart == InitStart /\ [][Next]_vars

(***************************************************************************)
(* The validator and the row handlers on arbitrary record batches: the     *)
(* handlers take any record, whatever the table's editor lets through.     *)
(***************************************************************************)

InitBatch ==
    LET
        \* A record with the REFERENZ ref; long is whether its NUMMER is too long.
        BatchRecord(ref, long) ==
            [NAME |-> <<77, 97, 120>>, ZUSATZ |-> <<>>, STRASSE |-> <<87, 101, 103>>,
             NUMMER |-> IF long THEN <<49, 50, 51, 52, 53, 54, 55, 56>> ELSE <<53>>,
             PLZ |-> <<49, 48, 49, 49, 53>>, STADT |-> <<66, 101, 114, 108, 105, 110>>,
             LAND |-> DEU, ADRESS_TYP |-> HOUSE, REFERENZ |-> ref]

        \* The batches of up to MaxBatch records with any REFERENZ in 1..MaxBatch;
        \* the first record of a batch has a warning of its own.
        Batches ==
            UNION {{[k \in 1..n |-> BatchRecord(refs[k], k = 1)] :
                       refs \in [1..n -> 1..MaxBatch]} : n \in 0..MaxBatch}
    IN
    /\ mappedData \in Batches
    /\ warnings = buildWarnings(mappedData)
    /\ rawData = <<>> /\ headers = <<>> /\ columnSelections = <<>>
    /\ sender = DEFAULT_SENDER /\ senderWarnings = <<>> /\ error = NoError
    /\ sheetSelector = <<>> /\ crashed = FALSE
    /\ storage = AbsentBlob
    /\ lastOp = Op("batch", <<>>, 0, "")
    /\ call = NoCall
    /\ upload = NoUpload

\* onEditRow(rowIndex, updatedRow) with a record that differs in its REFERENZ.
ReassignReferenz ==
    LET
        \* The record at rowIndex shares its REFERENZ with another record of the
        \* batch and no record of the batch has the REFERENZ ref.
        SharedToUnused(rows, rowIndex, ref) ==
            /\ \E j \in 1..Len(rows) :
                  j # rowIndex + 1 /\ rows[j].REFERENZ = rows[rowIndex + 1].REFERENZ
            /\ \A j \in 1..Len(rows) : rows[j].REFERENZ # ref
    IN
    /\ \E rowIndex \in 0..(Len(mappedData) - 1), ref \in 1..(MaxBatch + 1) :
          /\ \E s \in {RunEffects(
                          setRows(AppState,
                                  handleEditRow(mappedData, warnings, rowIndex,
                                      [mappedData[rowIndex + 1]
                                          EXCEPT !.REFERENZ = ref])),
                          {"mappedData"})} : Becomes(s)
          /\ lastOp' = Op("reassign", <<>>, rowIndex,
                          IF SharedToUnused(mappedData, rowIndex, ref)
                          THEN "shared to unused" ELSE "")
    /\ UNCHANGED <<sheetSelector, crashed, call, upload>>

NextBatch ==
    \/ ReassignReferenz
    \/ DeleteRow

SpecBatch == InitBatch /\ [][NextBatch]_vars

(***************************************************************************)
(* The functions of lib/mapper and the export of MappedTable on their own: *)
(* a call is drawn with its argument, and applied.                         *)
(***************************************************************************)
\* The pending call returns result.
Returns(result) ==
    /\ ~call.done
    /\ call' = [call EXCEPT !.done = TRUE, !.result = result]
    /\ UNCHANGED <<mappedData, rawData, sender, headers, columnSelections, warnings,
                   senderWarnings, error, sheetSelector, storage, crashed, lastOp,
                   upload>>

\* The calls: each function with each of its arguments.
LibCalls ==
    LET PendingCall(fn, arg) == [fn |-> fn, arg |-> arg, done |-> FALSE, result |-> <<>>]

        \* Tokens of a street.
        StreetTokens ==
            { <<87, 101, 103>>,  \* "Weg"
              <<77, 97, 105, 110>>,  \* "Main"
              <<49, 50>>,  \* "12"
              <<49, 50, 97>>,  \* "12a"
              <<49, 50, 97, 98>>,  \* "12ab"
              <<53, 45>>,  \* "5-"
              <<66, 55>> }  \* "B7"

        \* The streets handed to splitStreetNumber: up to MaxTokens tokens with one
        \* space between them, streets with other white space, numbers, nothing.
        StreetInputs ==
            {JsStr(JoinSpace(parts)) :
                parts \in UNION {[1..n -> StreetTokens] : n \in 1..MaxTokens}}
            \cup { JsStr(<<77, 97, 105, 110, 32, 32, 83, 116, 114, 101, 101, 116, 32, 49, 50>>),  \* "Main  Street 12"
                   JsStr(<<65, 10, 66, 32, 49, 50>>),  \* "A\nB 12"
                   JsStr(<<65, 10, 49, 50>>),  \* "A\n12"
                   JsStr(<<32, 87, 101, 103, 32, 53, 32>>),  \* " Weg 5 "
                   JsStr(<<87, 101, 103, 9, 49, 50, 97>>),  \* "Weg\t12a"
                   JsStr(<<32, 32, 32>>),  \* "   "
                   JsStr(<<>>),  \* ""
                   JsNum(12), JsNum(0), Undefined }

        \* Texts of an address addition, with whether "Postfach" and whether one of
        \* the two spellings of the major-recipient word is in them.
        AdditionFragments ==
            {
              \* "Postfach 12"
              [text |-> <<80, 111, 115, 116, 102, 97, 99, 104, 32, 49, 50>>,
               postfach |-> TRUE, major |-> FALSE],
              \* "postfach 12"
              [text |-> <<112, 111, 115, 116, 102, 97, 99, 104, 32, 49, 50>>,
               postfach |-> FALSE, major |-> FALSE],
              \* "POSTFACH"
              [text |-> <<80, 79, 83, 84, 70, 65, 67, 72>>,
               postfach |-> FALSE, major |-> FALSE],
              \* "Gro\u00dfempf\u00e4nger"
              [text |-> <<71, 114, 111, 223, 101, 109, 112, 102, 228, 110, 103, 101, 114>>,
               postfach |-> FALSE, major |-> TRUE],
              \* "Grossempf\u00e4nger"
              [text |-> <<71, 114, 111, 115, 115, 101, 109, 112, 102, 228, 110, 103, 101, 114>>,
               postfach |-> FALSE, major |-> TRUE],
              \* "Grossempfanger"
              [text |-> <<71, 114, 111, 115, 115, 101, 109, 112, 102, 97, 110, 103, 101, 114>>,
               postfach |-> FALSE, major |-> FALSE],
              \* "gro\u00dfempf\u00e4nger"
              [text |-> <<103, 114, 111, 223, 101, 109, 112, 102, 228, 110, 103, 101, 114>>,
               postfach |-> FALSE, major |-> FALSE],
              \* "c/o M\u00fcller"
              [text |-> <<99, 47, 111, 32, 77, 252, 108, 108, 101, 114>>,
               postfach |-> FALSE, major |-> FALSE],
              \* "Post fach"
              [text |-> <<80, 111, 115, 116, 32, 102, 97, 99, 104>>,
               postfach |-> FALSE, major |-> FALSE]
            }

        \* The additions handed to mapAddressType: one fragment, two with a space
        \* between them, nothing.
        AdditionInputs ==
            {[value |-> JsStr(f.text), postfach |-> f.postfach, major |-> f.major] :
                f \in AdditionFragments}
            \cup {[value |-> JsStr(f.text \o <<32>> \o g.text),
                    postfach |-> f.postfach \/ g.postfach, major |-> f.major \/ g.major] :
                      f \in AdditionFragments, g \in AdditionFragments}
            \cup {[value |-> v, postfach |-> FALSE, major |-> FALSE] :
                      v \in {Undefined, JsStr(<<>>), JsStr(<<32, 32>>), JsNum(0), JsNum(12)}}

        \* A raw row with every default column but the country.
        RowWithoutCountry ==
            SubSeq(RowPoolA[1], 1, Len(HeadersA) - 1)
        \* The same row with the cell value under "Land"; without the column when
        \* value is undefined.
        RowWithCountry(value) ==
            IF value = Undefined THEN RowWithoutCountry
            ELSE Append(RowWithoutCountry, [k |-> kLand, v |-> value])

        \* The rows handed to mapRow.  entry > 0: the country cell is a key of that
        \* entry of the directory, as written, in lower case, in upper case, or
        \* with white space around it.  entry = 0: it is no key of the directory.
        RowInputs ==
            {[row |-> RowWithCountry(JsStr(text)), country |-> JsStr(text), entry |-> i] :
                <<i, text>> \in UNION {
                    {<<j, key>>, <<j, toLowerCase(key)>>, <<j, toUpperCase(key)>>,
                     <<j, <<32>> \o key \o <<9>> >>} :
                       <<j, key>> \in UNION {
                           {<<n, countriesData[n].englishShortName>>,
                            <<n, countriesData[n].germanShortName>>,
                            <<n, countriesData[n].alpha2Code>>,
                            <<n, countriesData[n].alpha3Code>>} :
                              n \in 1..Len(countriesData)}}}
            \cup {[row |-> RowWithCountry(value), country |-> value, entry |-> 0] :
                     value \in { Undefined,
                                 JsStr(<<>>),
                                 JsStr(<<32, 32, 32>>),
                                 JsStr(<<65, 116, 108, 97, 110, 116, 105, 115>>),
                                 JsStr(<<32, 32, 65, 116, 108, 97, 110, 116, 105, 115, 32>>),
                                 JsStr(<<78, 101, 119, 32, 32, 65, 116, 108, 97, 110, 116, 105, 115>>),
                                 JsStr(<<99, 111, 110, 115, 116, 114, 117, 99, 116, 111, 114>>),
                                 JsStr(<<95, 95, 112, 114, 111, 116, 111, 95, 95>>) }}
                     \* "", "   ", "Atlantis", "  Atlantis ", "New  Atlantis", "constructor", "__proto__"

        \* Columns of a raw row: a default alias, one in another letter case, a
        \* column no table knows, and a column named like a property of every object:
        \* "Vorname", "NAME", "Extra Col", "Ort", "constructor", with the values "v1"
        \* to "v5".
        ColumnPool ==
            << [k |-> <<86, 111, 114, 110, 97, 109, 101>>, v |-> JsStr(<<118, 49>>)],
               [k |-> <<78, 65, 77, 69>>, v |-> JsStr(<<118, 50>>)],
               [k |-> <<69, 120, 116, 114, 97, 32, 67, 111, 108>>, v |-> JsStr(<<118, 51>>)],
               [k |-> <<79, 114, 116>>, v |-> JsStr(<<118, 52>>)],
               [k |-> <<99, 111, 110, 115, 116, 114, 117, 99, 116, 111, 114>>, v |-> JsStr(<<118, 53>>)] >>

        \* An alias table of a caller: "VORNAME" -> last_name, "extra col" -> city.
        CustomMapping ==
            << [k |-> <<86, 79, 82, 78, 65, 77, 69>>, v |-> last_name],
               [k |-> <<101, 120, 116, 114, 97, 32, 99, 111, 108>>, v |-> city] >>

        \* Rows with two columns that are stored under one key: "Land" =
        \* "Austria" with "country" = "Schweiz", and with "LAND" = "Schweiz",
        \* each in both orders.
        CollidingRows ==
            {
              << [k |-> <<76, 97, 110, 100>>, v |-> JsStr(<<65, 117, 115, 116, 114, 105, 97>>)],
                 [k |-> <<99, 111, 117, 110, 116, 114, 121>>, v |-> JsStr(<<83, 99, 104, 119, 101, 105, 122>>)] >>,
              << [k |-> <<99, 111, 117, 110, 116, 114, 121>>, v |-> JsStr(<<83, 99, 104, 119, 101, 105, 122>>)],
                 [k |-> <<76, 97, 110, 100>>, v |-> JsStr(<<65, 117, 115, 116, 114, 105, 97>>)] >>,
              << [k |-> <<76, 97, 110, 100>>, v |-> JsStr(<<65, 117, 115, 116, 114, 105, 97>>)],
                 [k |-> <<76, 65, 78, 68>>, v |-> JsStr(<<83, 99, 104, 119, 101, 105, 122>>)] >>,
              << [k |-> <<76, 65, 78, 68>>, v |-> JsStr(<<83, 99, 104, 119, 101, 105, 122>>)],
                 [k |-> <<76, 97, 110, 100>>, v |-> JsStr(<<65, 117, 115, 116, 114, 105, 97>>)] >>
            }

        \* The calls of mapColumns: every row of one or more columns of the pool,
        \* without an alias table and with the caller's, and the rows with two
        \* columns for one key without an alias table.
        ColumnInputs ==
            {[row |-> LET Kept(e) == e.k \in keys IN SelectSeq(ColumnPool, Kept),
              customMapping |-> custom] :
                keys \in (SUBSET {ColumnPool[i].k : i \in 1..Len(ColumnPool)}) \ {{}},
                custom \in {{}, {CustomMapping}}}
              \cup {[row |-> row, customMapping |-> {}] : row \in CollidingRows}

        \* Raw rows by what is wrong with them: nothing, no cell at all, every cell
        \* the empty string, white space, the number 0 or the number 12.
        RowOfKind(kind) ==
            CASE kind = "normal" -> RowPoolA[1]
              [] kind = "absent" -> <<>>
              [] kind = "empty" -> MakeRow(HeadersA, [i \in 1..Len(HeadersA) |-> JsStr(<<>>)])
              [] kind = "blank" -> MakeRow(HeadersA, [i \in 1..Len(HeadersA) |-> JsStr(<<32, 9>>)])
              [] kind = "zero" -> MakeRow(HeadersA, [i \in 1..Len(HeadersA) |-> JsNum(0)])
              [] kind = "number" -> MakeRow(HeadersA, [i \in 1..Len(HeadersA) |-> JsNum(12)])

        \* The batches handed to mapData: up to MaxBatch rows of any kind.
        BatchInputs ==
            {[kinds |-> kinds, rows |-> [k \in 1..Len(kinds) |-> RowOfKind(kinds[k])]] :
                kinds \in UNION {[1..n -> {"normal", "absent", "empty", "blank", "zero",
                                           "number"}] : n \in 1..MaxBatch}}

        \* A text of n characters.
        Fill(n) == [i \in 1..n |-> 120]

        \* Records by what the validator finds in them: every field at its limit or
        \* empty; every field one over its limit and an unresolved country; NAME
        \* alone one over; NUMMER and STADT one over; a full address of 72 and of 73
        \* characters; a full address of 72 characters when trimmed, 73 as stored;
        \* an unresolved country alone.
        RecordToValidate(kind) ==
            CASE kind = "at limit" ->
                   [DEFAULT_SENDER EXCEPT !.NAME = Fill(50), !.NUMMER = Fill(7),
                                          !.PLZ = Fill(9)]
              [] kind = "all over" ->
                   ("LAND_UNMAPPED_ORIGINAL" :> <<65, 116, 108, 97, 110, 116, 105, 115>>) @@
                   [NAME |-> Fill(51), ZUSATZ |-> Fill(51), STRASSE |-> Fill(41),
                    NUMMER |-> Fill(8), PLZ |-> Fill(10), STADT |-> Fill(41),
                    LAND |-> Fill(4), ADRESS_TYP |-> Fill(100), REFERENZ |-> 0]
              [] kind = "name over" -> [DEFAULT_SENDER EXCEPT !.NAME = Fill(51)]
              [] kind = "two over" ->
                   [DEFAULT_SENDER EXCEPT !.NUMMER = Fill(8), !.STADT = Fill(41)]
              [] kind = "full 72" ->
                   [DEFAULT_SENDER EXCEPT !.NAME = Fill(40), !.STRASSE = Fill(31)]
              [] kind = "full 73" ->
                   [DEFAULT_SENDER EXCEPT !.NAME = Fill(40), !.STRASSE = Fill(32)]
              [] kind = "padded" ->
                   [DEFAULT_SENDER EXCEPT !.NAME = Fill(40), !.STRASSE = Fill(31) \o <<32>>]
              [] kind = "unmapped" ->
                   ("LAND_UNMAPPED_ORIGINAL" :> <<65, 116, 108, 97, 110, 116, 105, 115>>) @@
                   [DEFAULT_SENDER EXCEPT !.NAME = Fill(5)]

        \* The REFERENZ values of a record set: all different, all the same, the
        \* first and the third the same.
        ReferenzPatterns == {"different", "same", "first and third"}
        ReferenzOf(pattern, k) ==
            CASE pattern = "different" -> k
              [] pattern = "same" -> 1
              [] pattern = "first and third" -> IF k = 3 THEN 1 ELSE k

        \* The record sets handed to buildWarnings: up to MaxBatch records of any
        \* kind under any pattern of REFERENZ values.
        WarningInputs ==
            {[k \in 1..Len(kinds) |->
                 [RecordToValidate(kinds[k]) EXCEPT !.REFERENZ = ReferenzOf(pattern, k)]] :
                kinds \in UNION {[1..n -> {"at limit", "all over", "name over", "two over",
                                           "full 72", "full 73", "padded", "unmapped"}] :
                                    n \in 1..MaxBatch},
                pattern \in ReferenzPatterns}

        \* Records to export: a German one, a foreign one with a semicolon in its
        \* name, a German one by default with quotation marks in its name, a
        \* foreign one with a line break in a field and trailing space in LAND.
        ExportPool ==
            << [DEFAULT_SENDER EXCEPT !.NAME = <<77, 97, 120>>, !.STADT = <<66, 101, 114, 108, 105, 110>>],
               [DEFAULT_SENDER EXCEPT !.NAME = <<65, 59, 66>>, !.LAND = <<65, 85, 84>>],
               ("LAND_UNMAPPED_ORIGINAL" :> <<65, 116, 108, 97, 110, 116, 105, 115>>) @@
               [DEFAULT_SENDER EXCEPT !.NAME = <<83, 97, 121, 32, 34, 104, 105, 34>>],
               [DEFAULT_SENDER EXCEPT !.ZUSATZ = <<97, 10, 98>>, !.LAND = <<67, 72, 69, 32>>],
               \* LAND " Germany", "Deutschland"
               [DEFAULT_SENDER EXCEPT !.LAND = <<32, 71, 101, 114, 109, 97, 110, 121>>],
               [DEFAULT_SENDER EXCEPT !.LAND = <<68, 101, 117, 116, 115, 99, 104, 108, 97, 110, 100>>] >>

        \* The senders: none, the initial one, one abroad.
        ExportSenders ==
            {{}, {DEFAULT_SENDER},
             {[DEFAULT_SENDER EXCEPT !.NAME = <<88, 59, 89>>, !.LAND = <<65, 85, 84>>]}}

        \* The exports: a record set of 1..MaxBatch different records of the pool,
        \* in any order, with REFERENZ 1, 2, ..., a sender and a scope.
        ExportInputs ==
            {[data |-> [k \in 1..Len(picks) |-> [ExportPool[picks[k]] EXCEPT !.REFERENZ = k]],
              senderRow |-> s, scope |-> scope] :
                picks \in {p \in UNION {[1..n -> 1..Len(ExportPool)] : n \in 1..MaxBatch} :
                              \A a, b \in DOMAIN p : a # b => p[a] # p[b]},
                s \in ExportSenders,
                scope \in {"all", "local", "international"}}

        \* The field values handed to escapeCSVValue: up to MaxText characters
        \* of a, semicolon, quotation mark, line feed, carriage return, space.
        FieldInputs ==
            UNION {[1..n -> {97, 59, 34, 10, 13, 32}] : n \in 0..MaxText}

        \* The texts handed to toCP1252Bytes: every code point up to 0x17f and
        \* of the table alone, some beyond (a Greek letter, a surrogate, the
        \* last of the plane, one of another plane), the letters of the README
        \* with the quotation mark, and up to MaxText characters of a, a with
        \* diaeresis, the euro sign, the quotation mark, U+0080 and a Greek
        \* letter.
        EncoderInputs ==
            {<<c>> : c \in 0..383 \cup DOMAIN CP1252_CODEPOINT_TO_BYTE
                                  \cup {916, 55296, 65535, 128512}}
            \cup {<<228, 246, 252, 223, 8364, 34>>}
            \cup UNION {[1..n -> {97, 228, 8364, 34, 128, 916}] : n \in 0..MaxText}

    IN
        {PendingCall("splitStreetNumber", v) : v \in StreetInputs}
        \cup {PendingCall("mapAddressType", a) : a \in AdditionInputs}
        \cup {PendingCall("mapRow", r) : r \in RowInputs}
        \cup {PendingCall("mapColumns", c) : c \in ColumnInputs}
        \cup {PendingCall("mapData", b) : b \in BatchInputs}
        \cup {PendingCall("buildWarnings", rows) : rows \in WarningInputs}
        \cup {PendingCall("downloadCSV", e) : e \in ExportInputs}
        \cup {PendingCall("escapeCSVValue", v) : v \in FieldInputs}
        \cup {PendingCall("toCP1252Bytes", v) : v \in EncoderInputs}

InitLib ==
    /\ call \in LibCalls
    /\ upload = NoUpload
    /\ mappedData = <<>> /\ warnings = NoWarnings
    /\ rawData = <<>> /\ headers = <<>> /\ columnSelections = <<>>
    /\ sender = DEFAULT_SENDER /\ senderWarnings = <<>> /\ error = NoError
    /\ sheetSelector = <<>> /\ crashed = FALSE
    /\ storage = AbsentBlob
    /\ lastOp = Op("call", <<>>, 0, "")

CallSplitStreetNumber ==
    /\ call.fn = "splitStreetNumber"
    /\ Returns(splitStreetNumber(call.arg))

CallMapAddressType ==
    /\ call.fn = "mapAddressType"
    /\ Returns(mapAddressType(call.arg.value))

\* mapRow(row, 0): the mapping is the default.
CallMapRow ==
    /\ call.fn = "mapRow"
    /\ Returns(mapRow(call.arg.row, 0, {}))

CallMapColumns ==
    /\ call.fn = "mapColumns"
    /\ Returns(mapColumns(call.arg.row, call.arg.customMapping))

\* mapData(rows): the mapping is the default.
CallMapData ==
    /\ call.fn = "mapData"
    /\ Returns(mapData(call.arg.rows, {}))

CallBuildWarnings ==
    /\ call.fn = "buildWarnings"
    /\ Returns(buildWarnings(call.arg))

CallDownloadCSV ==
    /\ call.fn = "downloadCSV"
    /\ Returns(downloadCSV(call.arg.data, call.arg.senderRow, call.arg.scope))

CallEscapeCSVValue ==
    /\ call.fn = "escapeCSVValue"
    /\ Returns(escapeCSVValue(call.arg))

CallToCP1252Bytes ==
    /\ call.fn = "toCP1252Bytes"
    /\ Returns(toCP1252Bytes(call.arg))

NextLib ==
    \/ CallSplitStreetNumber
    \/ CallMapAddressType
    \/ CallMapRow
    \/ CallMapColumns
    \/ CallMapData
    \/ CallBuildWarnings
    \/ CallDownloadCSV
    \/ CallEscapeCSVValue
    \/ CallToCP1252Bytes

SpecLib == InitLib /\ [][NextLib]_vars

(***************************************************************************)
(* The record set from an upload to the row editor: sheets whose rows have  *)
(* untidy white space and any country cell, then edits of any field the    *)
(* editor offers.                                                          *)
(***************************************************************************)
\* The state after the upload of a sheet on the first visit.
InitRecords ==
    LET
        \* A raw row with white space at the ends of and within its cells, and the
        \* cell value under "Land" (no such cell when value is undefined):
        \* "  Max\t" | "Muster  mann" | " Main   Street  12 " | " c/o \n X " |
        \* " 10 115 " | "  Ber  lin ".
        UntidyRow(value) ==
            LET cells == MakeRow(SubSeq(HeadersA, 1, Len(HeadersA) - 1),
                                 << JsStr(<<32, 32, 77, 97, 120, 9>>),
                                    JsStr(<<77, 117, 115, 116, 101, 114, 32, 32, 109, 97, 110, 110>>),
                                    JsStr(<<32, 77, 97, 105, 110, 32, 32, 32, 83, 116, 114, 101, 101, 116, 32, 32, 49, 50, 32>>),
                                    JsStr(<<32, 99, 47, 111, 32, 10, 32, 88, 32>>),
                                    JsStr(<<32, 49, 48, 32, 49, 49, 53, 32>>),
                                    JsStr(<<32, 32, 66, 101, 114, 32, 32, 108, 105, 110, 32>>) >>)
            IN  IF value = Undefined THEN cells ELSE Append(cells, [k |-> kLand, v |-> value])

        \* Country cells: none, white space, "Deutschland", " austria ",
        \* "New  Atlantis", "constructor", "__proto__".
        CountryCells ==
            { Undefined,
              JsStr(<<32, 32>>),
              JsStr(<<68, 101, 117, 116, 115, 99, 104, 108, 97, 110, 100>>),
              JsStr(<<32, 97, 117, 115, 116, 114, 105, 97, 32>>),
              JsStr(<<78, 101, 119, 32, 32, 65, 116, 108, 97, 110, 116, 105, 115>>),
              JsStr(<<99, 111, 110, 115, 116, 114, 117, 99, 116, 111, 114>>),
              JsStr(<<95, 95, 112, 114, 111, 116, 111, 95, 95>>) }

        \* The sheets: one row with any country cell, alone or followed by a
        \* tidy row.
        RecordSheets ==
            {<<UntidyRow(value)>> : value \in CountryCells}
            \cup {<<UntidyRow(value), RowPoolA[1]>> : value \in CountryCells}
    IN
    /\ \E rows \in RecordSheets :
          \E s \in {RunEffects(handleDataLoaded(InitialState(AbsentBlob), rows, HeadersA),
                               AllState)} :
              /\ mappedData = s.mappedData /\ rawData = s.rawData
              /\ sender = s.sender /\ headers = s.headers
              /\ columnSelections = s.columnSelections /\ warnings = s.warnings
              /\ senderWarnings = s.senderWarnings /\ error = s.error
              /\ storage = s.storage
    /\ sheetSelector = <<>>
    /\ crashed = FALSE
    /\ lastOp = Op("records", <<>>, 0, "")
    /\ call = NoCall
    /\ upload = NoUpload

\* The user opens the editor on the row shown at position p, changes one
\* field of the draft and saves: lastOp keeps the draft handed to onEditRow.
EditField ==
    LET
        \* The changes the editor offers on a draft: a country of the combobox, an
        \* address type of the select, a text typed into the field NAME
        \* (" Max  Muster ").
        FieldEdits ==
            { [field |-> "LAND", value |-> countriesData[1].alpha3Code],
              [field |-> "LAND", value |-> countriesData[2].alpha3Code],
              [field |-> "ADRESS_TYP", value |-> POBOX],
              [field |-> "NAME", value |-> <<32, 77, 97, 120, 32, 32, 77, 117, 115, 116, 101, 114, 32>>] }
    IN
    /\ Page /\ hasData
    /\ \E p \in 1..Len(mappedData), c \in FieldEdits :
          LET rowIndex == mappedData[p].REFERENZ - 1
              Save(draft) ==
                  /\ \E s \in {RunEffects(
                                  setRows(AppState,
                                          handleEditRow(mappedData, warnings, rowIndex,
                                                        draft)),
                                  {"mappedData"})} : Becomes(s)
                  /\ lastOp' = Op("edit", draft, rowIndex, c.field)
          IN  /\ rowIndex \in 0..(Len(mappedData) - 1)
              /\ Save(updateDraftField(mappedData[rowIndex + 1], c.field, c.value))
    /\ UNCHANGED <<sheetSelector, crashed, call, upload>>

\* onEditRow(rowIndex, updatedRow) and onDeleteRow(rowIndex) with the index
\* after the last record, where there is none.
MissingRow ==
    /\ Page
    /\ \/ CommitRows(handleEditRow(mappedData, warnings, Len(mappedData),
                                   DEFAULT_SENDER),
                     "edit missing", Len(mappedData))
       \/ CommitRows(handleDeleteRow(mappedData, warnings, Len(mappedData)),
                     "delete missing", Len(mappedData))

NextRecords ==
    \/ EditField
    \/ DeleteRow
    \/ MissingRow

SpecRecords == InitRecords /\ [][NextRecords]_vars

(***************************************************************************)
(* The upload step by step: parseFile starts the read of the file, and the *)
(* callbacks of the read end it.  The browser runs the callbacks of a read *)
(* that was started: the complete or the error callback of Papa.parse, and *)
(* the load or the error event of the reader.  The fairness conditions     *)
(* name these steps by what they do to the upload component, which no      *)
(* other step does.                                                        *)
(***************************************************************************)
\* parseFile(file) up to the start of the read: setIsLoading(true), then
\* Papa.parse, reader.readAsArrayBuffer or, for another extension, onError.
StartParse ==
    /\ Page /\ ~upload.isLoading
    /\ \E file \in Files :
          LET task == IF file.ext = "csv" THEN "Papa.parse"
                      ELSE IF file.ext \in {"xlsx", "xls", "ods"} THEN "FileReader"
                      ELSE ""
          IN  IF task = ""
              THEN /\ Settle(file, parseFile(file))
                   /\ upload' = [NoUpload EXCEPT !.calls = <<parseFile(file).call>>]
              ELSE /\ upload' = [isLoading |-> TRUE, task |-> task, file |-> file,
                                 calls |-> <<>>]
                   /\ lastOp' = Op("parseFile", <<>>, 0, "")
                   /\ UNCHANGED <<mappedData, rawData, sender, headers,
                                  columnSelections, warnings, senderWarnings,
                                  error, sheetSelector, storage, crashed, call>>

\* The complete or the error callback of Papa.parse.
PapaCallback ==
    /\ ~crashed /\ upload.task = "Papa.parse"
    /\ Settle(upload.file, parseFile(upload.file))
    /\ upload' = [NoUpload EXCEPT !.calls = <<parseFile(upload.file).call>>]

\* reader.onload: the file was read.
ReaderLoad ==
    /\ ~crashed /\ upload.task = "FileReader"
    /\ Settle(upload.file, parseFile(upload.file))
    /\ upload' = [NoUpload EXCEPT !.calls = <<parseFile(upload.file).call>>]

\* The read fails: the reader fires error, for which parseExcel sets no
\* handler.
ReaderError ==
    /\ ~crashed /\ upload.task = "FileReader"
    /\ upload' = [upload EXCEPT !.task = "", !.file = <<>>]
    /\ lastOp' = Op("readError", <<>>, 0, "")
    /\ UNCHANGED <<mappedData, rawData, sender, headers, columnSelections,
                   warnings, senderWarnings, error, sheetSelector, storage,
                   crashed, call>>

NextUpload ==
    \/ StartParse
    \/ PapaCallback
    \/ ReaderLoad
    \/ ReaderError
    \/ SelectSheet
    \/ CloseSheetSelector

SpecUpload ==
    /\ Init /\ [][NextUpload]_vars
    /\ WF_upload(/\ upload.task = "Papa.parse"
                 /\ upload' = [NoUpload EXCEPT
                                  !.calls = <<parseFile(upload.file).call>>])
    /\ WF_upload(/\ upload.task = "FileReader"
                 /\ upload' \in {[NoUpload EXCEPT
                                     !.calls = <<parseFile(upload.file).call>>],
                                 [upload EXCEPT !.task = "", !.file = <<>>]})

(***************************************************************************)
(* Properties.                                                             *)
(***************************************************************************)
\* C1: in every reachable state, after any sequence of upload, column
\* re-mapping, row edit and row delete, no two records of mappedData have the
\* same REFERENZ.
C1_ReferenzUnique ==
    \A i, j \in 1..Len(mappedData) :
        i # j => mappedData[i].REFERENZ # mappedData[j].REFERENZ

\* A deletion has left two records or more.
C1_Witness == lastOp.op = "delete" /\ Len(mappedData) >= 2

\* C2: deleting the record at a valid index i of an N-record set leaves the
\* other N-1 records in their order, every field but REFERENZ unchanged and
\* REFERENZ equal to the position, 1..N-1; the warnings rebuilt after the
\* deletion hold no "REFERENZ must be unique".
C2_DeleteCompacts ==
    [][lastOp'.op = "delete" =>
          LET i == lastOp'.n
              N == Len(mappedData)
              Source(k) == IF k <= i THEN k ELSE k + 1
          IN  /\ i \in 0..(N - 1)
              /\ Len(mappedData') = N - 1
              /\ \A k \in 1..(N - 1) :
                    /\ mappedData'[k].REFERENZ = k
                    /\ DOMAIN mappedData'[k] = DOMAIN mappedData[Source(k)]
                    /\ \A f \in (DOMAIN mappedData'[k]) \ {"REFERENZ"} :
                          mappedData'[k][f] = mappedData[Source(k)][f]
              /\ \A k \in DOMAIN warnings' :
                    WarnRefUnique \notin Range(warnings'[k])]_vars

\* The first of three records was deleted; the third, now the second, has
\* kept its warning.
C2_Witness ==
    /\ lastOp.op = "delete" /\ lastOp.n = 0
    /\ Len(mappedData) = 2
    /\ 1 \in DOMAIN warnings

\* C3: in every settled state the warnings map is the validator's result
\* over the current mappedData.
C3_WarningsCurrent == warnings = buildWarnings(mappedData)

\* The first record was edited and the edit gave it a warning.
C3_Witness ==
    /\ lastOp.op = "edit" /\ lastOp.n = 0
    /\ 0 \in DOMAIN warnings
    /\ WarnMaxLength("NUMMER", 8, 7) \in Range(warnings[0])

\* C4: once the column selections have changed, with raw rows loaded and
\* every required field mapped, mappedData is the transform of every raw row
\* under the new mapping, one record per raw row in row order, whatever
\* edits and deletions came before.
C4_RemapRecreates ==
    (/\ lastOp.op = "select"
     /\ Len(rawData) > 0
     /\ \A i \in 1..Len(TARGET_FIELDS) :
           TARGET_FIELDS[i].required =>
               Truthy(JsGet(columnSelections, TARGET_FIELDS[i].key)))
    => /\ Len(mappedData) = Len(rawData)
       /\ \A i \in 1..Len(rawData) :
             mappedData[i] = mapRow(rawData[i], i - 1,
                                    {buildMapping(columnSelections)})

\* A re-selection has brought back records that had been deleted.
C4_Witness ==
    /\ lastOp.op = "select"
    /\ lastOp.n > 0 /\ lastOp.n < Len(rawData)
    /\ Len(mappedData) = Len(rawData)

\* C5: after records were edited or deleted and the page is loaded again,
\* mappedData is the record set that was there before the reload.
C5_EditsRestored == lastOp.op = "reload" => mappedData = lastOp.prev

\* C6: after Clear All and the effects it triggers, the record set is
\* discarded, the sender is the default, the error is empty, and no entry
\* remains under the storage key.
C6_ClearRemovesBlob ==
    lastOp.op = "clear" =>
        /\ mappedData = <<>> /\ rawData = <<>> /\ headers = <<>>
        /\ columnSelections = <<>> /\ warnings = NoWarnings
        /\ sender = DEFAULT_SENDER /\ error = NoError
        /\ storage = AbsentBlob

\* The labels of the required target fields that have no column selected.
MissingLabels ==
    {TARGET_FIELDS[i].label :
        i \in {j \in 1..Len(TARGET_FIELDS) :
                  /\ TARGET_FIELDS[j].required
                  /\ ~Truthy(JsGet(columnSelections, TARGET_FIELDS[j].key))}}

\* C7: with raw rows loaded and a required field without a source column,
\* mappedData and warnings are empty and the error names exactly the missing
\* required fields.
C7_MissingRequiredBlocks ==
    (Len(rawData) > 0 /\ MissingLabels # {}) =>
        /\ mappedData = <<>>
        /\ warnings = NoWarnings
        /\ error.kind = "Please map required fields"
        /\ Range(error.fields) = MissingLabels
        /\ Len(error.fields) = Cardinality(MissingLabels)

\* The user has selected a column for one of two missing required fields.
C7_Witness ==
    /\ lastOp.op = "select"
    /\ Len(rawData) > 0
    /\ Cardinality(MissingLabels) = 1

\* C8: after a failed upload, rawData, mappedData and warnings are empty and
\* the error message is set, whatever was loaded before.
C8_UploadErrorEmpties ==
    lastOp.op = "uploadError" =>
        /\ rawData = <<>> /\ mappedData = <<>> /\ warnings = NoWarnings
        /\ error # NoError /\ error.fields = <<>>

\* An upload failed after a sheet had been loaded.
C8_Witness == lastOp.op = "uploadError" /\ Len(headers) > 0 /\ error # NoError

\* C9: when the storage key is absent or its content cannot be parsed, the
\* application starts as with no prior state (empty record set, empty raw
\* rows, default sender, no headers, no column selections) and no exception
\* leaves start-up.
C9_LoadNeverFatal ==
    (lastOp.op \in {"start", "reload"}
       /\ lastOp.note \in {"absent", "empty", "unparsable"})
    => /\ ~crashed
       /\ mappedData = <<>> /\ rawData = <<>> /\ sender = DEFAULT_SENDER
       /\ headers = <<>> /\ columnSelections = <<>>

\* The application has started on a text that JSON.parse rejects.
C9_Witness ==
    /\ lastOp.op = "start" /\ lastOp.note = "unparsable"
    /\ ~crashed /\ rawData = <<>> /\ storage.kind = "object"

\* C9 as stated: the same also when the content parses and does not have the
\* expected shape.
C9_AnyShapeNeverFatal ==
    (lastOp.op \in {"start", "reload"}
       /\ lastOp.note \in {"absent", "empty", "unparsable", "misshapen"})
    => /\ ~crashed
       /\ mappedData = <<>> /\ rawData = <<>> /\ sender = DEFAULT_SENDER
       /\ headers = <<>> /\ columnSelections = <<>>

\* C10: in every record batch, a record's warning list holds "REFERENZ must
\* be unique" exactly when another record of the batch has the same
\* REFERENZ; so two records that share one both carry it, and neither does
\* once one of them has been given an unused REFERENZ and the batch has been
\* validated again.
C10_RefUniqueIffShared ==
    \A i \in 0..(Len(mappedData) - 1) :
        (i \in DOMAIN warnings /\ WarnRefUnique \in Range(warnings[i]))
        <=> \E j \in 0..(Len(mappedData) - 1) :
               j # i /\ mappedData[j + 1].REFERENZ = mappedData[i + 1].REFERENZ

\* Exactly two records shared a REFERENZ, one of them was given an unused
\* one, and no record carries the warning any more.
C10_Witness ==
    /\ lastOp.op = "reassign" /\ lastOp.note = "shared to unused"
    /\ Len(mappedData) >= 3
    /\ \A k \in DOMAIN warnings : WarnRefUnique \notin Range(warnings[k])
    /\ 0 \in DOMAIN warnings

\* The "LAND could not be mapped" warnings the validator emits for a record.
UnmappedWarnings(record) ==
    LET IsUnmapped(w) == w.kind = "LAND could not be mapped"
    IN  SelectSeq(validateMaxLengths(record), IsUnmapped)

\* C12: for an empty, absent or whitespace-only country the record has LAND
\* DEU and no unmapped original, and the validator emits no "LAND could not
\* be mapped"; for a non-empty country that is no key of the directory the
\* record has LAND DEU and the trimmed input as its unmapped original, and
\* the validator emits exactly one "LAND could not be mapped".
C12_EmptyVersusUnresolvable ==
    (call.fn = "mapRow" /\ call.done /\ call.arg.entry = 0) =>
        LET text == IF Truthy(call.arg.country)
                    THEN trim(String(call.arg.country)) ELSE <<>>
            record == call.result
        IN  /\ record.LAND = DEU
            /\ IF text = <<>>
               THEN /\ "LAND_UNMAPPED_ORIGINAL" \notin DOMAIN record
                    /\ UnmappedWarnings(record) = <<>>
               ELSE /\ "LAND_UNMAPPED_ORIGINAL" \in DOMAIN record
                    /\ record["LAND_UNMAPPED_ORIGINAL"] = text
                    /\ UnmappedWarnings(record) = <<WarnUnmapped(text, DEU)>>

RuleSplit(str, amended) ==
    LET parts == SplitSpaces(str)
        lastPart == parts[Len(parts)]
        prefix == TrimRight(SubSeq(str, 1, Len(str) - Len(lastPart)))
        several == Len(parts) >= 2
    IN  IF /\ several /\ IsNumberToken(lastPart)
           /\ amended => \A i \in 1..Len(prefix) : prefix[i] \notin LineTerminators
        THEN <<prefix, lastPart>>
        ELSE IF HasDigit(lastPart) /\ (amended => several)
        THEN <<JoinSpace(SubSeq(parts, 1, Len(parts) - 1)), lastPart>>
        ELSE IF HasDigit(parts[1]) /\ (amended => several)
        THEN <<JoinSpace(Tail(parts)), parts[1]>>
        ELSE <<str, (<<>>)>>

\* A street was split: its text, trimmed, is not empty.
StreetWasSplit ==
    /\ call.fn = "splitStreetNumber" /\ call.done
    /\ Truthy(call.arg) /\ trim(String(call.arg)) # <<>>

\* C14 (amended): splitStreetNumber applies the first rule that matches: (a)
\* white space and a last token of digits with at most one more letter, '-'
\* or '/', after a text without a line terminator, gives (that text, token);
\* (b) two tokens or more and a digit in the last give (all but last, last);
\* (c) two tokens or more and a digit in the first give (remainder, first);
\* (d) otherwise (whole string, empty number).
C14_FirstRuleWinsAmended ==
    StreetWasSplit => call.result = RuleSplit(trim(String(call.arg)), TRUE)

\* "12 Main B7": the first and the last token hold a digit, the street is
\* split at the last.
C14_Witness ==
    /\ StreetWasSplit
    /\ call.arg = JsStr(<<49, 50, 32, 77, 97, 105, 110, 32, 66, 55>>)
    /\ call.result = << <<49, 50, 32, 77, 97, 105, 110>>, <<66, 55>> >>

\* C14: splitStreetNumber applies the first rule that matches: (a) a
\* trailing token of digits with at most one more letter, '-' or '/' gives
\* (prefix, token); (b) a digit in the last token gives (all but last, last);
\* (c) a digit in the first token gives (remainder, first); (d) otherwise
\* (whole string, empty number).
C14_FirstRuleWins ==
    StreetWasSplit => call.result = RuleSplit(trim(String(call.arg)), FALSE)

\* C15: the address type is POBOX whenever the addition holds "Postfach",
\* MAJORRECIPIENT when it holds one of the two spellings of the
\* major-recipient word and not "Postfach", and HOUSE in every other case
\* (nothing, other spellings, other letter cases).
C15_AddressTypeOrdered ==
    (call.fn = "mapAddressType" /\ call.done) =>
        call.result = IF call.arg.postfach THEN POBOX
                      ELSE IF call.arg.major THEN MAJORRECIPIENT
                      ELSE HOUSE

\* An addition with "Postfach" after the major-recipient word is a POBOX.
C15_Witness ==
    /\ call.fn = "mapAddressType" /\ call.done
    /\ call.arg.postfach /\ call.arg.major
    /\ call.arg.value.s[1] = 71
    /\ call.result = POBOX

\* C16: every row key that equals an alias key ignoring letter case has its
\* value stored under that alias's target key, every other row key has its
\* value stored under the row key in lower case, and the default aliases
\* are not applied when the caller supplies an alias table.
C16_AliasOrPassthrough ==
    (call.fn = "mapColumns" /\ call.done) =>
        LET table == IF call.arg.customMapping = {} THEN DEFAULT_COLUMN_MAPPING
                     ELSE CHOOSE m \in call.arg.customMapping : TRUE
            Aliases(key) == {i \in 1..Len(table) :
                                toLowerCase(table[i].k) = toLowerCase(key)}
            StoredKey(key) ==
                IF Aliases(key) = {} THEN toLowerCase(key)
                ELSE table[CHOOSE i \in Aliases(key) : TRUE].v
        IN  /\ Len(call.result) = Len(call.arg.row)
            /\ \A i \in 1..Len(call.arg.row) :
                  /\ ObjHas(call.result, StoredKey(call.arg.row[i].k))
                  /\ ObjGet(call.result, StoredKey(call.arg.row[i].k))
                        = call.arg.row[i].v

\* The record of a raw row of a kind: what can be derived, and the empty
\* string or the default for the rest.
RecordOfKind(kind) ==
    LET nothing == [NAME |-> <<>>, ZUSATZ |-> <<>>, STRASSE |-> <<>>,
                    NUMMER |-> <<>>, PLZ |-> <<>>, STADT |-> <<>>,
                    LAND |-> DEU, ADRESS_TYP |-> HOUSE, REFERENZ |-> 0]
    IN  CASE kind = "normal" ->
               [nothing EXCEPT
                  !.NAME = <<77, 97, 120, 32, 77, 117, 115, 116, 101, 114, 109, 97, 110, 110>>,
                  !.STRASSE = <<66, 108, 117, 109, 101, 110, 115, 116, 114, 97, 223, 101>>,
                  !.NUMMER = <<53>>, !.PLZ = <<49, 48, 49, 49, 53>>,
                  !.STADT = <<66, 101, 114, 108, 105, 110>>]
          [] kind = "number" ->
               ("LAND_UNMAPPED_ORIGINAL" :> <<49, 50>>) @@
               [nothing EXCEPT
                  !.NAME = <<49, 50, 32, 49, 50>>, !.ZUSATZ = <<49, 50>>,
                  !.STRASSE = <<49, 50>>, !.PLZ = <<49, 50>>, !.STADT = <<49, 50>>]
          [] OTHER -> nothing

\* C19: for every batch of raw rows, with cells that are absent, empty,
\* numbers or white space, mapData returns one record per row in the order
\* of the rows, the record at position k has REFERENZ k + 1, and every field
\* that cannot be derived is the empty string or its default.
C19_BatchNeverAborts ==
    (call.fn = "mapData" /\ call.done) =>
        /\ Len(call.result) = Len(call.arg.kinds)
        /\ \A k \in 1..Len(call.arg.kinds) :
              call.result[k] = [RecordOfKind(call.arg.kinds[k]) EXCEPT !.REFERENZ = k]

\* A row of white space between two rows with data: three records, the
\* second empty, the third with REFERENZ 3.
C19_Witness ==
    /\ call.fn = "mapData" /\ call.done
    /\ call.arg.kinds = <<"normal", "blank", "number">>
    /\ Len(call.result) = 3
    /\ call.result[2].NAME = <<>> /\ call.result[2].LAND = DEU
    /\ call.result[3].REFERENZ = 3 /\ call.result[3].NAME # <<>>

\* The warnings the statement of C17 gives the record at index i of a
\* record set, in its order; the fields of the full address are taken
\* trimmed or as stored.
WarningsInOrder(rows, i, trimmed) ==
    LET row == rows[i + 1]
        fields == <<"NAME", "ZUSATZ", "STRASSE", "NUMMER", "PLZ", "STADT", "LAND",
                    "ADRESS_TYP", "REFERENZ">>
        limit == <<50, 50, 40, 7, 9, 40, 3, 99, 20>>
        Text(n) == IF fields[n] = "REFERENZ" THEN Digits(row.REFERENZ)
                   ELSE row[fields[n]]
        Over(n) == Len(Text(n)) > limit[n]
        over == SelectSeq([n \in 1..9 |-> n], Over)
        Part(n) == IF trimmed THEN trim(Text(n)) ELSE Text(n)
        Filled(n) == Part(n) # <<>>
        parts == SelectSeq([n \in 1..6 |-> n], Filled)
        \* the length of the parts joined by one space
        RECURSIVE Joined(_)
        Joined(k) == IF k = 0 THEN 0
                     ELSE Joined(k - 1) + Len(Part(parts[k])) + (IF k > 1 THEN 1 ELSE 0)
        Shared == \E j \in 0..(Len(rows) - 1) :
                      j # i /\ rows[j + 1].REFERENZ = row.REFERENZ
    IN  (IF "LAND_UNMAPPED_ORIGINAL" \in DOMAIN row
         THEN <<WarnUnmapped(row["LAND_UNMAPPED_ORIGINAL"], row.LAND)>> ELSE <<>>)
        \o [k \in 1..Len(over) |->
               WarnMaxLength(fields[over[k]], Len(Text(over[k])), limit[over[k]])]
        \o (IF Joined(Len(parts)) > 72
            THEN <<WarnFullAddress(Joined(Len(parts)))>> ELSE <<>>)
        \o (IF Shared THEN <<WarnRefUnique>> ELSE <<>>)

\* The warnings buildWarnings returned for the record at index i.
WarningsAt(i) == IF i \in DOMAIN call.result THEN call.result[i] ELSE <<>>

\* C17 (amended): for every record the validator reports every failing
\* check in the fixed order: the unmapped-LAND warning, one warning for each
\* field whose stringified length is strictly greater than its limit, in
\* the order of the fields, the full-address warning exactly when the
\* trimmed fields NAME to STADT, without those that are empty after
\* trimming, joined by one space exceed 72 characters, and the REFERENZ
\* uniqueness warning last.
C17_AllChecksInOrderTrimmed ==
    (call.fn = "buildWarnings" /\ call.done) =>
        \A i \in 0..(Len(call.arg) - 1) :
            WarningsAt(i) = WarningsInOrder(call.arg, i, TRUE)

\* A record with every field over its limit, an unresolved country and a
\* shared REFERENZ has eleven warnings: the unmapped one first, the
\* uniqueness one last.
C17_Witness ==
    /\ call.fn = "buildWarnings" /\ call.done
    /\ Len(call.arg) = 2
    /\ call.arg[1].REFERENZ = call.arg[2].REFERENZ
    /\ Len(call.arg[1].NAME) = 51 /\ Len(call.arg[1].ADRESS_TYP) = 100
    /\ Len(WarningsAt(0)) = 11
    /\ WarningsAt(0)[1].kind = "LAND could not be mapped"
    /\ WarningsAt(0)[2].col = "NAME" /\ WarningsAt(0)[9].col = "ADRESS_TYP"
    /\ WarningsAt(0)[10].kind = "Full address exceeds max length"
    /\ WarningsAt(0)[11] = WarnRefUnique

\* C17: as above, with the full-address warning exactly when the non-empty
\* fields NAME to STADT as stored, joined by one space, exceed 72
\* characters.
C17_AllChecksInOrder ==
    (call.fn = "buildWarnings" /\ call.done) =>
        \A i \in 0..(Len(call.arg) - 1) :
            WarningsAt(i) = WarningsInOrder(call.arg, i, FALSE)

\* What a reader of CSV makes of a text: lines of fields, the fields
\* separated by semicolons, the lines by line feeds, a field in quotation
\* marks taken without them and with every doubled mark as one.  A
\* character is within quotation marks when an odd number of marks precede
\* it.
ReadCSV(text) ==
    LET quotes == {j \in 1..Len(text) : text[j] = 34}
        Outside(i) == Cardinality({q \in quotes : q < i}) % 2 = 0
        feeds == {i \in 1..Len(text) : text[i] = 10 /\ Outside(i)}
        semicolons == {i \in 1..Len(text) : text[i] = 59 /\ Outside(i)}
        \* the ranges into which the positions of at cut lo..hi
        Cut(at, lo, hi) ==
            LET n == Cardinality(at)
                At(k) == IF k = 0 THEN lo - 1
                         ELSE IF k = n + 1 THEN hi + 1
                         ELSE CHOOSE p \in at : Cardinality({q \in at : q < p}) = k - 1
            IN  [k \in 1..(n + 1) |-> [from |-> At(k - 1) + 1, to |-> At(k) - 1]]
        Unquoted(field) ==
            LET inner == SubSeq(field, 2, Len(field) - 1)
                Kept(i) == \/ inner[i] # 34
                           \/ Cardinality({j \in 1..i : inner[j] = 34}) % 2 = 1
                kept == SelectSeq([i \in 1..Len(inner) |-> i], Kept)
            IN  IF field # <<>> /\ field[1] = 34
                THEN [k \in 1..Len(kept) |-> inner[kept[k]]]
                ELSE field
        Fields(line) ==
            LET cuts == Cut({i \in semicolons : i >= line.from /\ i <= line.to},
                            line.from, line.to)
            IN  [k \in 1..Len(cuts) |-> Unquoted(SubSeq(text, cuts[k].from, cuts[k].to))]
        lines == Cut(feeds, 1, Len(text))
    IN  [k \in 1..Len(lines) |-> Fields(lines[k])]

\* The nine fields of a record as texts.
NineFields(row) ==
    <<row.NAME, row.ZUSATZ, row.STRASSE, row.NUMMER, row.PLZ, row.STADT, row.LAND,
      row.ADRESS_TYP, Digits(row.REFERENZ)>>

\* C20: the exported text is the header line, then the sender as the first
\* data row when a sender is set, whatever the scope and the sender's LAND,
\* then the records the scope selects in the order of the record set; every
\* data row has the nine fields of the header and not LAND_UNMAPPED_ORIGINAL.
C20_ExportLayout ==
    (call.fn = "downloadCSV" /\ call.done) =>
        LET Selected(row) ==
                \/ call.arg.scope = "all"
                \/ call.arg.scope = "local" /\ isGermanLand(row.LAND)
                \/ call.arg.scope = "international" /\ ~isGermanLand(row.LAND)
            selected == SelectSeq(call.arg.data, Selected)
            senderRows == IF call.arg.senderRow = {} THEN <<>>
                          ELSE <<NineFields(CHOOSE s \in call.arg.senderRow : TRUE)>>
            headerLine == SubSeq(call.result, 1, 61)
        IN  /\ headerLine = <<78, 65, 77, 69, 59, 90, 85, 83, 65, 84, 90, 59, 83, 84, 82, 65, 83, 83, 69, 59, 78, 85, 77, 77, 69, 82, 59, 80, 76, 90, 59, 83, 84, 65, 68, 84, 59, 76, 65, 78, 68, 59, 65, 68, 82, 69, 83, 83, 95, 84, 89, 80, 59, 82, 69, 70, 69, 82, 69, 78, 90>>
            /\ Len(call.result) > 61 => call.result[62] = 10
            /\ Tail(ReadCSV(call.result))
                  = senderRows \o [k \in 1..Len(selected) |-> NineFields(selected[k])]

\* A local export with a sender abroad: the sender is the first data row,
\* the foreign record is left out, and the record with an unresolved
\* country follows with nine fields.
C20_Witness ==
    /\ call.fn = "downloadCSV" /\ call.done
    /\ call.arg.scope = "local"
    /\ \E s \in call.arg.senderRow : s.LAND = <<65, 85, 84>>
    /\ Len(call.arg.data) = 2
    /\ call.arg.data[1].LAND = <<65, 85, 84>>
    /\ "LAND_UNMAPPED_ORIGINAL" \in DOMAIN call.arg.data[2]
    /\ LET lines == ReadCSV(call.result)
       IN  /\ Len(lines) = 3
           /\ lines[2][7] = <<65, 85, 84>>
           /\ Len(lines[3]) = 9
           /\ lines[3][1] = call.arg.data[2].NAME
           /\ lines[3][9] = <<50>>

\* The text is three capital letters.
IsAlpha3(text) == Len(text) = 3 /\ \A i \in 1..3 : text[i] \in 65..90

\* C11: in every record of every record set that an upload and edits in the
\* row editor lead to, LAND is a 3-letter code, LAND_UNMAPPED_ORIGINAL is
\* there only with a non-empty text and while LAND is DEU, and the record
\* the user has just given a LAND by hand has none.
C11_LandIsCodeMarkOnlyOnDefault ==
    /\ \A k \in 1..Len(mappedData) :
          /\ IsAlpha3(mappedData[k].LAND)
          /\ "LAND_UNMAPPED_ORIGINAL" \in DOMAIN mappedData[k] =>
                /\ mappedData[k].LAND = DEU
                /\ mappedData[k]["LAND_UNMAPPED_ORIGINAL"] # <<>>
    /\ (lastOp.op = "edit" /\ lastOp.note = "LAND") =>
          "LAND_UNMAPPED_ORIGINAL" \notin DOMAIN mappedData[lastOp.n + 1]

\* No white space at the ends and no two white-space characters in a row.
Normalized(text) ==
    /\ text # <<>> => ~IsSpace(text[1]) /\ ~IsSpace(text[Len(text)])
    /\ \A i \in 1..(Len(text) - 1) : ~(IsSpace(text[i]) /\ IsSpace(text[i + 1]))

TextFields == {"NAME", "ZUSATZ", "STRASSE", "NUMMER", "PLZ", "STADT", "LAND", "ADRESS_TYP"}

\* C18 (amended): every string field NAME to ADRESS_TYP of every record the
\* transformer produced is whitespace-normalized and LAND_UNMAPPED_ORIGINAL,
\* when present, has no white space at its ends; a row edit stores the
\* record as the editor's draft has it.
C18_TransformerNormalizesEditStoresDraft ==
    /\ lastOp.op = "records" =>
          \A k \in 1..Len(mappedData) :
              /\ \A f \in TextFields : Normalized(mappedData[k][f])
              /\ "LAND_UNMAPPED_ORIGINAL" \in DOMAIN mappedData[k] =>
                    LET original == mappedData[k]["LAND_UNMAPPED_ORIGINAL"]
                    IN  original = trim(original)
    /\ lastOp.op = "edit" => mappedData[lastOp.n + 1] = lastOp.prev

\* The record of an untidy row was stored with its fields normalized and
\* the unmapped original with the two spaces of the cell; then the name
\* typed into the editor was stored with the white space typed.
C18_Witness ==
    /\ lastOp.op = "edit" /\ lastOp.note = "NAME"
    /\ lastOp.n = 0
    /\ "LAND_UNMAPPED_ORIGINAL" \in DOMAIN mappedData[1]
    /\ mappedData[1].NAME = <<32, 77, 97, 120, 32, 32, 77, 117, 115, 116, 101, 114, 32>>
    /\ mappedData[1].STRASSE = <<77, 97, 105, 110, 32, 83, 116, 114, 101, 101, 116>>
    /\ mappedData[1].STADT = <<66, 101, 114, 32, 108, 105, 110>>
    /\ mappedData[1]["LAND_UNMAPPED_ORIGINAL"] = <<78, 101, 119, 32, 32, 65, 116, 108, 97, 110, 116, 105, 115>>

\* C18: every string field of every stored record, LAND_UNMAPPED_ORIGINAL
\* included, is whitespace-normalized, in the records of the transformer
\* and in those a row edit stored.
C18_EveryFieldNormalized ==
    \A k \in 1..Len(mappedData) :
        \A f \in DOMAIN mappedData[k] :
            f # "REFERENZ" => Normalized(mappedData[k][f])

\* An emitted field without its quotation marks: what is between the
\* outer marks, every doubled mark as one; a field that does not start
\* with a mark as it is.
Unescaped(field) ==
    LET inner == SubSeq(field, 2, Len(field) - 1)
        Kept(i) == \/ inner[i] # 34
                   \/ Cardinality({j \in 1..i : inner[j] = 34}) % 2 = 1
        kept == SelectSeq([i \in 1..Len(inner) |-> i], Kept)
    IN  IF field # <<>> /\ field[1] = 34
        THEN [k \in 1..Len(kept) |-> inner[kept[k]]]
        ELSE field

\* C21: a field value without semicolon, quotation mark and line feed is
\* emitted as it is; any other is emitted between quotation marks with every
\* quotation mark within doubled; un-escaping the emitted field gives the
\* value back, and an emitted field without quotation marks has no
\* semicolon.
C21_EscapeRoundTrip ==
    (call.fn = "escapeCSVValue" /\ call.done) =>
        LET value == call.arg
            emitted == call.result
            marks == {i \in 1..Len(value) : value[i] = 34}
            plain == \A i \in 1..Len(value) : value[i] \notin {59, 34, 10}
            \* the position in the emitted field of the i-th character
            At(i) == 1 + i + Cardinality({m \in marks : m < i})
        IN  /\ plain => emitted = value
            /\ ~plain =>
                  /\ Len(emitted) = Len(value) + Cardinality(marks) + 2
                  /\ emitted[1] = 34 /\ emitted[Len(emitted)] = 34
                  /\ \A i \in 1..Len(value) :
                        /\ emitted[At(i)] = value[i]
                        /\ i \in marks => emitted[At(i) + 1] = 34
            /\ Unescaped(emitted) = value
            /\ (emitted = <<>> \/ emitted[1] # 34) => ~Includes(emitted, <<59>>)

\* The value a";b was emitted as "a"";b".
C21_Witness ==
    /\ call.fn = "escapeCSVValue" /\ call.done
    /\ call.arg = <<97, 34, 59>>
    /\ call.result = <<34, 97, 34, 34, 59, 34>>

\* C22: a record is in the German export exactly when its LAND, trimmed
\* and compared without regard to letter case, is DE, DEU or GERMANY; the
\* international export has exactly the other records; every record is in
\* exactly one of the two, and the two together have the records of the
\* export of all.
C22_ScopesPartition ==
    (call.fn = "downloadCSV" /\ call.done /\ call.arg.senderRow = {}) =>
        LET data == call.arg.data
            Rows(scope) ==
                IF scope = call.arg.scope THEN Tail(ReadCSV(call.result))
                ELSE Tail(ReadCSV(downloadCSV(data, {}, scope)))
            local == Rows("local")
            international == Rows("international")
            all == Rows("all")
            German(row) ==
                toLowerCase(trim(row.LAND))
                    \in {<<100, 101>>, <<100, 101, 117>>,
                         <<103, 101, 114, 109, 97, 110, 121>>}
            In(rows, row) == \E k \in 1..Len(rows) : rows[k] = NineFields(row)
        IN  /\ Len(local) + Len(international) = Len(all)
            /\ Len(all) = Len(data)
            /\ \A k \in 1..Len(data) :
                  /\ In(local, data[k]) <=> German(data[k])
                  /\ In(international, data[k]) <=> ~German(data[k])
                  /\ In(all, data[k])

\* A German export of a record with LAND "Deutschland", one with LAND
\* " Germany" and one with LAND "CHE ": only the second is in it.
C22_Witness ==
    /\ call.fn = "downloadCSV" /\ call.done
    /\ call.arg.scope = "local" /\ call.arg.senderRow = {}
    /\ Len(call.arg.data) = 3
    /\ call.arg.data[1].LAND = <<68, 101, 117, 116, 115, 99, 104, 108, 97, 110, 100>>
    /\ call.arg.data[2].LAND = <<32, 71, 101, 114, 109, 97, 110, 121>>
    /\ call.arg.data[3].LAND = <<67, 72, 69, 32>>
    /\ LET lines == ReadCSV(call.result)
       IN  Len(lines) = 2 /\ lines[2][9] = <<50>>

\* The Windows-1252 code page from 0x80 to 0x9f: the code point of each
\* byte that has one.
Windows1252 ==
    (128 :> 8364) @@ (130 :> 8218) @@ (131 :> 402) @@ (132 :> 8222) @@ (133 :> 8230) @@
    (134 :> 8224) @@ (135 :> 8225) @@ (136 :> 710) @@ (137 :> 8240) @@ (138 :> 352) @@
    (139 :> 8249) @@ (140 :> 338) @@ (142 :> 381) @@ (145 :> 8216) @@ (146 :> 8217) @@
    (147 :> 8220) @@ (148 :> 8221) @@ (149 :> 8226) @@ (150 :> 8211) @@ (151 :> 8212) @@
    (152 :> 732) @@ (153 :> 8482) @@ (154 :> 353) @@ (155 :> 8250) @@ (156 :> 339) @@
    (158 :> 382) @@ (159 :> 376)

\* C23: the encoding has one byte in 0..255 for each code point: the code
\* point itself in 0x00-0x7f and 0xa0-0xff, the byte of the code page in
\* 0x80-0x9f for a code point of the table, and 0x3f for every other,
\* the code points 0x80-0x9f among them.
C23_OneBytePerCodePoint ==
    (call.fn = "toCP1252Bytes" /\ call.done) =>
        /\ Len(call.result) = Len(call.arg)
        /\ \A i \in 1..Len(call.arg) :
              LET c == call.arg[i]
                  byte == call.result[i]
              IN  /\ byte \in 0..255
                  /\ (c \in 0..127 \cup 160..255) => byte = c
                  /\ (\E b \in DOMAIN Windows1252 : Windows1252[b] = c) =>
                        byte \in 128..159 /\ Windows1252[byte] = c
                  /\ (c \notin 0..127 \cup 160..255
                        /\ \A b \in DOMAIN Windows1252 : Windows1252[b] # c) =>
                        byte = 63

\* U+0080, a Greek letter and the euro sign were encoded as ? ? 0x80.
C23_Witness ==
    /\ call.fn = "toCP1252Bytes" /\ call.done
    /\ call.arg = <<128, 916, 8364>>
    /\ call.result = <<63, 63, 128>>

\* C24: for every text of code points in 0x00-0x7f, 0xa0-0xff and of the
\* table, decoding the encoded bytes with the Windows-1252 code page gives
\* the text back.
C24_EncodingRoundTrip ==
    (call.fn = "toCP1252Bytes" /\ call.done
        /\ \A i \in 1..Len(call.arg) :
              \/ call.arg[i] \in 0..127 \cup 160..255
              \/ \E b \in DOMAIN Windows1252 : Windows1252[b] = call.arg[i]) =>
        [i \in 1..Len(call.result) |->
            IF call.result[i] \in DOMAIN Windows1252
            THEN Windows1252[call.result[i]]
            ELSE call.result[i]] = call.arg

\* The letters of the README and the quotation mark were encoded with the
\* euro sign as 0x80.
C24_Witness ==
    /\ call.fn = "toCP1252Bytes" /\ call.done
    /\ call.arg = <<228, 246, 252, 223, 8364, 34>>
    /\ call.result = <<228, 246, 252, 223, 128, 34>>

\* C25: an edit of a record that is there puts the submitted record in its
\* place and leaves the number of records, every other record, the raw
\* rows, the headers, the column selections and the sender as they were;
\* an edit or a deletion at an index without a record leaves the record
\* set and the warnings as they were.
C25_EditReplacesOneRecord ==
    [][/\ lastOp'.op = "edit" =>
            /\ Len(mappedData') = Len(mappedData)
            /\ \A k \in 1..Len(mappedData) :
                  mappedData'[k] = IF k = lastOp'.n + 1 THEN lastOp'.prev
                                   ELSE mappedData[k]
            /\ rawData' = rawData /\ headers' = headers
            /\ columnSelections' = columnSelections /\ sender' = sender
       /\ lastOp'.op \in {"edit missing", "delete missing"} =>
            /\ mappedData' = mappedData
            /\ warnings' = warnings]_vars

\* The first of two records, with the country cell "New  Atlantis", has
\* been given the LAND AUT in the editor: the stored record is the draft,
\* without the unmapped original.
C25_Witness ==
    /\ lastOp.op = "edit" /\ lastOp.note = "LAND" /\ lastOp.n = 0
    /\ Len(mappedData) = 2 /\ Len(rawData) = 2
    /\ JsGet(rawData[1], kLand) = JsStr(<<78, 101, 119, 32, 32, 65, 116, 108, 97, 110, 116, 105, 115>>)
    /\ mappedData[1] = lastOp.prev
    /\ mappedData[1].LAND = countriesData[2].alpha3Code
    /\ "LAND_UNMAPPED_ORIGINAL" \notin DOMAIN mappedData[1]

\* C26: every upload that parseFile starts ends: the loading flag is false
\* again, and the upload has made exactly one of a call of onDataLoaded with
\* rows, a call of onError and the opening of the sheet selector.
C26_UploadCompletes ==
    upload.isLoading ~>
        /\ ~upload.isLoading
        /\ Len(upload.calls) = 1
        /\ upload.calls[1] \in {"onDataLoaded", "onError", "setSheetSelector"}
        /\ upload.calls[1] = "onDataLoaded" => Len(rawData) > 0

\* An upload that is over has made one call, and the loading flag is false
\* with it.
C26_OneOutcome ==
    /\ upload.calls # <<>> =>
          /\ ~upload.isLoading /\ Len(upload.calls) = 1
          /\ upload.calls[1] \in {"onDataLoaded", "onError", "setSheetSelector"}
          /\ lastOp.op = "upload" => upload.calls[1] = "onDataLoaded" \/ Len(rawData) > 0
    /\ upload.isLoading /\ upload.task = "" => lastOp.op = "readError"

\* The list the table shows under the row of index rowIndex in a warnings
\* map: warnings[rowIndex] || [].
ShownWarnings(map, rowIndex) ==
    IF rowIndex \in DOMAIN map THEN map[rowIndex] ELSE <<>>

\* C27: in every state reached by uploads, re-selections, deletions and
\* edits through the row editor, the REFERENZ of each record is its
\* position plus one; so the index REFERENZ - 1 the table uses for a row is
\* the index of that record: the warnings shown are those the validator
\* computes for it, and Edit and Delete are called with its index.
C27_ReferenzIsPositionPlusOne ==
    \A i \in 0..(Len(mappedData) - 1) :
        LET row == mappedData[i + 1]
            rowIndex == row.REFERENZ - 1
        IN  /\ row.REFERENZ = i + 1
            /\ ShownWarnings(warnings, rowIndex)
                 = ShownWarnings(buildWarnings(mappedData), i)
            /\ mappedData[rowIndex + 1] = row

\* The first record was deleted; of the two that are left the second, which
\* was the third, has warnings and the first has none.
C27_Witness ==
    /\ lastOp.op = "delete" /\ lastOp.n = 0
    /\ Len(mappedData) = 2
    /\ mappedData[2].REFERENZ = 2
    /\ ShownWarnings(warnings, 1) # <<>>
    /\ ShownWarnings(warnings, 0) = <<>>

\* C28: whenever there are rows and every required field has a selected
\* column, the alias table built from the selections has, for every target
\* field with a selected column, that column as an alias of the field, and
\* the field has that column's value in every remapped row; also when two
\* target fields select the same column.
C28_EverySelectionAliased ==
    (Len(rawData) > 0 /\ Len(missingRequired(columnSelections)) = 0) =>
        \A i \in 1..Len(columnSelections) :
            LET target == columnSelections[i].k
                source == columnSelections[i].v
                mapping == buildMapping(columnSelections)
            IN  Truthy(source) =>
                    /\ ObjHas(mapping, source.s)
                    /\ ObjGet(mapping, source.s) = target
                    /\ \A r \in 1..Len(rawData) :
                          JsGet(mapColumns(rawData[r], {mapping}), target)
                            = JsGet(rawData[r], source.s)

\* C29: in the row mapColumns returns, the value under the target key of
\* an alias is the value of the row's column of that alias's name, in
\* whatever order the row has its columns: neither a column without an
\* alias whose name in lower case is the target key nor a column whose name
\* is the alias's name in other letter case replaces it.
C29_AliasedValueKept ==
    (call.fn = "mapColumns" /\ call.done) =>
        LET table == IF call.arg.customMapping = {} THEN DEFAULT_COLUMN_MAPPING
                     ELSE CHOOSE m \in call.arg.customMapping : TRUE
        IN  \A i \in 1..Len(call.arg.row) :
                \A j \in 1..Len(table) :
                    table[j].k = call.arg.row[i].k =>
                        JsGet(call.result, table[j].v) = call.arg.row[i].v

\* C30: in every state reached by uploads that succeed or fail,
\* re-selections, edits, deletions, Clear All and reloads, there are no
\* records while an error message is shown.
C30_NoRecordsWithError ==
    error # NoError => mappedData = <<>>

\* A sheet without a column for the country was uploaded: the raw rows
\* are there, the message names the one missing field and there is no
\* record.
C30_Witness ==
    /\ error.kind = "Please map required fields" /\ Len(error.fields) = 1
    /\ lastOp.op = "upload"
    /\ Len(rawData) > 0
    /\ mappedData = <<>> /\ warnings = NoWarnings

=============================================================================
